---- MODULE Spec2Model ----
(***************************************************************************)
(* Model of the conversation-chain builder, the augmentation step and the  *)
(* response streamer of llmcord-search-engine (src/core/*.py).             *)
(*                                                                         *)
(* Text is a sequence of characters; a character is a small integer.  A    *)
(* few integers stand for the substrings the code looks for (the bot       *)
(* mention, a URL, the "lens" prefix, a <text_file> block).                *)
(***************************************************************************)
EXTENDS Integers, Sequences, FiniteSets, TLC

(***************************************************************************)
(* Bounds of the model.                                                    *)
(***************************************************************************)
NHist == 2          \* messages that exist before the triggering message
MaxMessagesCfg == 2 \* config["max_messages"] ranges over 1..MaxMessagesCfg
MaxText == 2        \* config["max_text"]
MaxVisits == 4      \* cap of the ghost counter of loop iterations
discord_embed_limit == 5  \* 4096 in the source, scaled down
PlainLimit == 2     \* max_message_length of plain responses, 2000 in the source
MAX_MESSAGE_NODES == 2    \* 100 in the source, scaled down
MaxUrls == 2        \* max_urls of a search ranges over 1..MaxUrls

(***************************************************************************)
(* Characters.                                                             *)
(***************************************************************************)
MentionCh == 0      \* bot_user.mention
SpaceCh == 9        \* white space
NewlineCh == 8      \* "\n"
TextFileCh == 7     \* a whole <text_file name=..>..</text_file> block
UrlCh == 6          \* a substring matching https?://\S+
LensCh == 5         \* the prefix "lens"
AmpCh == 4          \* "&", which html.escape rewrites
EntityCh == 3       \* the "amp;" that html.escape puts after "&"
PlaceholderCh == 2  \* "Processing your request..."
AugTagCh == 20      \* the instruction header of an augmented user message
ResultsCh == 21     \* the fetched / searched content of an augmentation
SystemCh == 22      \* the system prompt
ErrorCh == 23       \* an error text shown to the user
SearchedCh == 24    \* "Searched for: "
LetterBase == 10    \* letters of a long body are LetterBase + position
IndicatorCh == 25   \* the white circle of STREAMING_INDICATOR
StreamBase == 30    \* the model's answer: character i is StreamBase + i

None == -1          \* Python None for integers (ids, references)
NoText == <<None>>  \* Python None for MsgNode.text

Reqs == {1, 2, 3}
MaxId == NHist + 6
MsgIds == 1 .. MaxId

(***************************************************************************)
(* String helpers.                                                         *)
(***************************************************************************)
Take(s, n) == SubSeq(s, 1, IF n < Len(s) THEN n ELSE Len(s))

RECURSIVE LStrip(_)
LStrip(s) == IF s # <<>> /\ Head(s) = SpaceCh THEN LStrip(Tail(s)) ELSE s

RECURSIVE RemoveAll(_, _)
RemoveAll(s, c) ==
    IF s = <<>> THEN <<>>
    ELSE IF Head(s) = c THEN RemoveAll(Tail(s), c)
    ELSE <<Head(s)>> \o RemoveAll(Tail(s), c)

RECURSIVE Join(_)
Join(parts) ==
    IF parts = <<>> THEN <<>>
    ELSE IF Len(parts) = 1 THEN parts[1]
    ELSE parts[1] \o <<NewlineCh>> \o Join(Tail(parts))

RECURSIVE Concat(_)
Concat(parts) == IF parts = <<>> THEN <<>> ELSE Head(parts) \o Concat(Tail(parts))

RECURSIVE Escape(_)
Escape(s) ==
    IF s = <<>> THEN <<>>
    ELSE (IF Head(s) = AmpCh THEN <<AmpCh, EntityCh>> ELSE <<Head(s)>>)
         \o Escape(Tail(s))

Reverse(s) == [i \in 1 .. Len(s) |-> s[Len(s) + 1 - i]]

Contains(s, c) == \E i \in 1 .. Len(s) : s[i] = c

LongBody == [i \in 1 .. MaxText + 1 |-> LetterBase + i]

(***************************************************************************)
(* Platform messages (discord.Message).  A message id is its index in      *)
(* msgs, so ids grow with creation time.                                   *)
(***************************************************************************)
\* message.reference is None, the id of the referenced message, or NoTarget
\* for a reference object whose message_id is None.
NoTarget == -2

\* message.channel: its type, the type of its parent ("none" when it has no
\* parent or the parent is not cached) and, for a thread, the id of the
\* message the thread was started from (the thread's own id).
Channel(type, parent, starter) ==
    [type |-> type, parent |-> parent, starter |-> starter]

TextChannel == Channel("text", "none", None)

\* cached: the predecessor is already held by the client
\* (reference.cached_message, channel.starter_message) and is not fetched.
Message(author, content, embed, atts, ref) ==
    [author |-> author, content |-> content, embed |-> embed, atts |-> atts,
     reference |-> ref, channel |-> TextChannel, cached |-> FALSE,
     color |-> "none", ever_complete |-> FALSE]

\* What a user can send as the message that triggers the bot.
TrigTemplates ==
    { [content |-> <<1>>, atts |-> <<>>],
      [content |-> <<MentionCh>>, atts |-> <<>>],
      [content |-> <<MentionCh, SpaceCh>> \o LongBody, atts |-> <<"image">>],
      [content |-> <<MentionCh>>, atts |-> <<"image", "video">>],
      [content |-> <<UrlCh, AmpCh>>, atts |-> <<"text">>],
      [content |-> <<LensCh, SpaceCh, 1>>, atts |-> <<"image", "image">>],
      [content |-> <<LensCh>>, atts |-> <<>>] }

\* Messages found further down a reply chain.
HistTemplates ==
    { [author |-> "user", content |-> <<1>>, atts |-> <<>>],
      [author |-> "user", content |-> <<>>, atts |-> <<"video">>],
      [author |-> "user", content |-> <<MentionCh, SpaceCh>> \o LongBody,
       atts |-> <<"image", "image">>],
      [author |-> "bot", content |-> LongBody, atts |-> <<>>] }

(***************************************************************************)
(* MsgNode (src/core/message_node.py).  lock.holder is the request whose   *)
(* coroutine holds the asyncio.Lock, lock.waiters its FIFO queue.          *)
(***************************************************************************)
FreeLock == [holder |-> None, waiters |-> <<>>]

MsgNode(next_msg, internet_used) ==
    [text |-> NoText, images |-> <<>>, role |-> "assistant",
     next_msg |-> next_msg, has_bad_attachments |-> FALSE,
     fetch_next_failed |-> FALSE, lock |-> FreeLock,
     serper_queries |-> <<>>, internet_used |-> internet_used,
     image_files |-> <<>>, extractions |-> 0]

(***************************************************************************)
(* process_message_attachments, the branch of the providers other than     *)
(* Google.  oks[i] tells whether the download of attachment i succeeds.    *)
(***************************************************************************)
ALLOWED_FILE_TYPES == {"image", "text", "application", "audio"}

AttIdx(m, kinds, oks, want) ==
    LET RECURSIVE Go(_)
        Go(i) == IF i > Len(m.atts) THEN <<>>
                 ELSE (IF m.atts[i] \in kinds /\ (oks[i] = want) THEN <<i>> ELSE <<>>)
                      \o Go(i + 1)
    IN Go(1)

TextParts(m, oks) ==
    (IF m.content # <<>> THEN <<m.content>> ELSE <<>>)
    \o (IF m.embed # <<>> THEN <<m.embed>> ELSE <<>>)
    \o [i \in 1 .. Len(AttIdx(m, {"text"}, oks, TRUE)) |-> <<TextFileCh>>]

StripMention(s) ==
    IF s # <<>> /\ Head(s) = MentionCh THEN LStrip(Tail(s)) ELSE s

Truncate(s, max_text) == Take(s, max_text)

process_message_attachments(m, oks, max_text) ==
    [text |-> Truncate(StripMention(Join(TextParts(m, oks))), max_text),
     images |-> AttIdx(m, {"image"}, oks, TRUE),
     has_bad_attachments |->
        \/ AttIdx(m, {"image"}, oks, FALSE) # <<>>
        \/ \E i \in 1 .. Len(m.atts) : m.atts[i] \notin ALLOWED_FILE_TYPES]

(***************************************************************************)
(* find_next_message.  outcome is what fetching the predecessor does:      *)
(* "ok", "notfound" (discord.NotFound / HTTPError, caught inside) or       *)
(* "error" (any other exception, which escapes to the caller).             *)
(***************************************************************************)
\* Lines 274-276: an explicit reply.
IsReply(m) == m.reference # None /\ m.reference # NoTarget

\* Lines 283-289: a message without reference in a public thread of a text
\* channel.
InThreadOfTextChannel(m) ==
    /\ m.reference = None
    /\ m.channel.type = "public_thread"
    /\ m.channel.parent = "text"

Fetched(id, outcome) ==
    [raised |-> outcome = "error",
     msg |-> IF outcome = "ok" THEN id ELSE None]

\* A rule that looks at the thread before the reply reference.
find_next_message_thread_first(m, outcome) ==
    IF m.channel.type = "public_thread" /\ m.channel.parent = "text"
    THEN Fetched(m.channel.starter, outcome)
    ELSE IF IsReply(m)
    THEN Fetched(m.reference, outcome)
    ELSE [raised |-> FALSE, msg |-> None]

find_next_message(m, outcome) ==
    IF IsReply(m)
    THEN Fetched(m.reference, outcome)
    ELSE IF InThreadOfTextChannel(m)
    THEN Fetched(m.channel.starter, outcome)
    ELSE [raised |-> FALSE, msg |-> None]

\* Lines 277-280 and 291-296: nothing is fetched when there is no
\* predecessor or the client holds it already.
FetchOutcomes(m) ==
    IF (IsReply(m) \/ InThreadOfTextChannel(m)) /\ ~m.cached
    THEN {"ok", "notfound", "error"} ELSE {"ok"}

OkChoices(m) ==
    { oks \in [1 .. Len(m.atts) -> BOOLEAN] :
        \A i \in 1 .. Len(m.atts) : m.atts[i] \notin {"image", "text"} => oks[i] }

(***************************************************************************)
(* Configuration (get_config(), read once per request).  mode stands for   *)
(* the model name: "text" is a model without vision, "vision" a vision     *)
(* model configured with an empty system prompt, "grok" a grok model.      *)
(***************************************************************************)
Config(max_messages, mode, plain) ==
    [max_text |-> MaxText, max_images |-> 1, max_messages |-> max_messages,
     accept_images |-> mode # "text",
     system_prompt |-> mode # "vision",
     grok |-> mode = "grok",
     use_plain_responses |-> plain]

ChainCfgs ==
    { Config(mm, mode, FALSE) : mm \in 1 .. MaxMessagesCfg,
                                mode \in {"text", "vision", "grok"} }

max_images(cfg) == IF cfg.accept_images THEN cfg.max_images ELSE 0

(***************************************************************************)
(* State.                                                                  *)
(***************************************************************************)
VARIABLES
    msgs,       \* the platform's messages, by id
    nodes,      \* the MsgNode objects ever created, by object id
    msg_nodes,  \* BotClient.msg_nodes: message id -> object id (or None)
    pc,         \* where each request's on_message coroutine stands
    req,        \* the locals of each request up to the LLM call
    strm,       \* the locals of each request's response handler
    search,     \* the locals of a SearchService.search call
    splitter,   \* the locals of a split_query call
    rephraser,  \* the locals of a rephrase_query call and of its caller
    keymgr,     \* the APIKeyManager and the calls made to it
    fetcher,    \* the locals of a fetch_single_url_content call
    llm,        \* the locals of a stream_completion generator
    handler,    \* the locals of a handle_search_queries call
    finder      \* one predecessor lookup of build_conversation_context

\* The state of the request pipeline, and the state of the services it calls.
core == <<msgs, nodes, msg_nodes, pc, req, strm>>

svc == <<search, splitter, rephraser, keymgr, fetcher, llm, finder, handler>>

vars == <<core, svc>>

\* final, prev_done and since are history fields of an edit: whether it was
\* a final edit, whether the edit before it had finished when it was issued,
\* and the seconds passed since last_task_time when it was issued.
NoEdit ==
    [msg |-> None, embed |-> <<>>, color |-> "none",
     final |-> FALSE, prev_done |-> FALSE, since |-> 0]

\* The background task fetch_images_and_update_views of a request
\* (bot_client.py lines 566-582): not started, fetching, waiting for the
\* lock of node `node', or finished.
NoImageTask == [pc |-> "none", queries |-> <<>>, node |-> None]

\* response_nodes, produced and completed are history variables: the node
\* objects the handler created, the number of characters the model has sent,
\* and whether the handler returned normally.
IdleStrm ==
    [response_msgs |-> <<>>, response_nodes |-> <<>>, response_contents |-> <<>>,
     prev_content |-> <<>>, edit_task |-> "none", edit |-> NoEdit, since |-> 0,
     oversized |-> FALSE,
     finish_reason |-> "none", produced |-> 0, completed |-> FALSE,
     searched_for_text |-> <<>>, user_warnings |-> {},
     victims |-> <<>>, prune_node |-> None,
     image_task |-> NoImageTask]

\* calls and returned are history variables: the backends called so far and
\* what each returned.
IdleSearch ==
    [pc |-> "idle", query |-> None, max_urls |-> 0, calls |-> <<>>,
     returned |-> <<>>, results |-> <<>>, errors |-> <<>>]

IdleSplit ==
    [pc |-> "idle", query |-> "", i |-> 0, api_key |-> "", content |-> <<>>,
     ret |-> <<>>, raised |-> FALSE, used |-> <<>>, taken |-> <<>>]

Services == {"openai", "serper", "unknown"}

NewKeyManager ==
    [pc |-> "new",
     providers_keys |-> [S \in Services |-> <<>>],
     service_keys |-> [S \in Services |-> <<>>],
     index_counters |-> [S \in Services |-> None],
     calls |-> <<>>]

\* attempts and yielded are history variables: the key of every attempt made,
\* and the chunks handed to the consumer, each with its attempt and its
\* position in that attempt's stream.
IdleLLM ==
    [pc |-> "idle", retry_count |-> 0, current_api_key |-> "", sent |-> 0,
     attempts |-> <<>>, yielded |-> <<>>, raised |-> FALSE]

\* curr_msg is the message whose predecessor is looked up; next_msg and
\* fetch_next_failed are the fields of its node after the lookup.
IdleFind ==
    [pc |-> "idle", curr_msg |-> Message("user", <<>>, <<>>, <<>>, None),
     outcome |-> "ok", next_msg |-> None, fetch_next_failed |-> FALSE]

\* returned is a history variable: what search returned for each query.
\* tasks are the fetch_single_url_content coroutines handed to gather,
\* completed the order in which they finished.
IdleHandle ==
    [pc |-> "idle", queries |-> <<>>, returned |-> <<>>,
     aggregated_results |-> <<>>, errors |-> <<>>,
     tasks |-> <<>>, completed |-> <<>>, contents |-> <<>>, ret |-> <<>>]

IdleFetch ==
    [pc |-> "idle", url |-> "", jina |-> "", branch |-> "", fetched |-> 0,
     ret |-> 0, raised |-> FALSE]

IdleRephrase ==
    [pc |-> "idle", i |-> 0, api_key |-> "", content |-> <<>>, ret |-> <<>>,
     raised |-> FALSE, searched |-> FALSE, used |-> <<>>, taken |-> <<>>]

IdleReq ==
    [new_msg |-> None, progress_message |-> None, cfg |-> Config(1, "text", FALSE),
     curr_msg |-> None, curr_node |-> None, messages |-> <<>>,
     user_warnings |-> {}, log |-> <<>>, augmented |-> FALSE, catch |-> "none"]

Init ==
    /\ msgs = <<>>
    /\ nodes = <<>>
    /\ msg_nodes = [i \in MsgIds |-> None]
    /\ pc = [r \in Reqs |-> "idle"]
    /\ req = [r \in Reqs |-> IdleReq]
    /\ strm = [r \in Reqs |-> IdleStrm]
    /\ search = IdleSearch
    /\ splitter = IdleSplit
    /\ rephraser = IdleRephrase
    /\ keymgr = NewKeyManager
    /\ fetcher = IdleFetch
    /\ llm = IdleLLM
    /\ finder = IdleFind
    /\ handler = IdleHandle

(***************************************************************************)
(* A message that does not trigger the bot is posted: the oldest one       *)
(* replies to nothing or (pathological) to itself, every later one to the  *)
(* one before it.                                                          *)
(***************************************************************************)
UserPost ==
    /\ \A r \in Reqs : pc[r] = "idle"
    /\ Len(msgs) < NHist
    /\ \E t \in HistTemplates :
       \E ref \in (IF msgs = <<>> THEN {None, 1} ELSE {Len(msgs)}) :
          msgs' = Append(msgs, Message(t.author, t.content, <<>>, t.atts, ref))
    /\ UNCHANGED <<nodes, msg_nodes, pc, req, strm>>
    /\ UNCHANGED svc

(***************************************************************************)
(* BotClient.clean_message_content: every mention removed, then lstrip.    *)
(***************************************************************************)
clean_message_content(content) == LStrip(RemoveAll(content, MentionCh))

(***************************************************************************)
(* on_message up to its first await: the triggering message arrives        *)
(* (replying to message ref), its content is cleaned, the configuration is *)
(* read and the placeholder is posted.                                     *)
(***************************************************************************)
OnMessage(r, t, ref, cfg) ==
    /\ pc[r] = "idle"
    /\ Len(msgs) + 2 <= MaxId
    /\ LET id == Len(msgs) + 1 IN
       /\ msgs' = msgs \o
             << Message("user", clean_message_content(t.content), <<>>, t.atts, ref),
                Message("bot", <<PlaceholderCh>>, <<>>, <<>>, id) >>
       /\ req' = [req EXCEPT ![r] =
             [IdleReq EXCEPT !.new_msg = id, !.progress_message = id + 1,
                             !.cfg = cfg, !.curr_msg = id]]
    /\ pc' = [pc EXCEPT ![r] = "walk"]
    /\ UNCHANGED <<nodes, msg_nodes, strm>>
    /\ UNCHANGED svc

(***************************************************************************)
(* build_conversation_context.                                             *)
(***************************************************************************)
TextPart(t) == [type |-> "text", text |-> t, image |-> None]
ImagePart(i) == [type |-> "image_url", text |-> <<>>, image |-> i]

\* Lines 396-405: a list of parts when the node has images to send, else a string.
TurnContent(node, cfg) ==
    LET imgs == Take(node.images, max_images(cfg))
        txt == Take(node.text, cfg.max_text)
    IN IF imgs # <<>>
       THEN [isStr |-> FALSE, text |-> <<>>,
             parts |-> (IF txt # <<>> THEN <<TextPart(txt)>> ELSE <<>>)
                       \o [i \in 1 .. Len(imgs) |-> ImagePart(imgs[i])]]
       ELSE [isStr |-> TRUE, text |-> txt, parts |-> <<>>]

\* Line 408: content != "".
HasContent(c) == ~(c.isStr /\ c.text = <<>>)

\* Lines 407-418.
AppendTurn(messages, node, cfg, src) ==
    IF HasContent(TurnContent(node, cfg))
    THEN Append(messages,
                [role |-> node.role, content |-> TurnContent(node, cfg), src |-> src])
    ELSE messages

Warning(w, n) == [w |-> w, n |-> n]

\* Line 421.
TextTooLong(node, cfg) == Len(node.text) > cfg.max_text

\* Lines 447-449.
ChainCapped(node, cfg, messages) ==
    node.fetch_next_failed
    \/ (node.next_msg # None /\ Len(messages) = cfg.max_messages)

\* Lines 420-457; messages is the list after the append.
NodeWarnings(node, cfg, messages) ==
    (IF TextTooLong(node, cfg) THEN {Warning("max_text", cfg.max_text)} ELSE {})
    \cup (IF Len(node.images) > max_images(cfg)
          THEN {IF max_images(cfg) > 0
                THEN Warning("max_images", max_images(cfg))
                ELSE Warning("cant_see_images", 0)}
          ELSE {})
    \cup (IF node.has_bad_attachments THEN {Warning("bad_attachments", 0)} ELSE {})
    \cup (IF ChainCapped(node, cfg, messages)
          THEN {Warning("only_last", Len(messages))} ELSE {})

\* A loop that runs while len(messages) <= max_messages.
LoopConditionOffByOne(q) ==
    q.curr_msg # None /\ Len(q.messages) <= q.cfg.max_messages

\* Line 358.
LoopCondition(q) ==
    q.curr_msg # None /\ Len(q.messages) < q.cfg.max_messages

\* Lines 361-394: the node after the extraction.
Extracted(node, m, cfg, oks, outcome) ==
    LET a == process_message_attachments(m, oks, cfg.max_text)
        f == find_next_message(m, outcome)
    IN [node EXCEPT
          !.text = a.text, !.images = a.images,
          !.has_bad_attachments = a.has_bad_attachments,
          !.role = IF m.author = "bot" THEN "assistant" ELSE "user",
          !.next_msg = IF f.raised THEN node.next_msg ELSE f.msg,
          !.fetch_next_failed = f.raised \/ node.fetch_next_failed,
          !.extractions = node.extractions + 1]

\* Lines 396-460: the request's locals after formatting node and moving on.
Advanced(q, node, extracted, waited) ==
    LET ms == AppendTurn(q.messages, node, q.cfg, q.curr_msg) IN
    [q EXCEPT
       !.messages = ms,
       !.user_warnings = q.user_warnings \cup NodeWarnings(node, q.cfg, ms),
       !.curr_msg = node.next_msg,
       !.log = Append(q.log,
                 [msg |-> q.curr_msg, node |-> q.curr_node,
                  read |-> node.text, read_images |-> node.images,
                  text |-> Take(node.text, q.cfg.max_text),
                  images |-> Take(node.images, max_images(q.cfg)),
                  next_msg |-> node.next_msg,
                  appended |-> Len(ms) > Len(q.messages),
                  extracted |-> extracted, waited |-> waited])]

\* A release that leaves the lock with its holder.
ReleaseKeepsHolder(node) == node

\* Leaving async with, or lock.release(): the lock has no holder.
Release(node) == [node EXCEPT !.lock.holder = None]

\* A node check that never finds the text resolved.
ResolvedNever(node) == FALSE

\* Line 361: curr_node.text is None.
Resolved(node) == node.text # NoText

\* The walker holds the lock of its current node: if the text is resolved it
\* formats the node and releases the lock without suspending, else it starts
\* the extraction, which suspends on network I/O with the lock held.
Locked(r, base, nid, waited) ==
    IF Resolved(base[nid])
    THEN /\ nodes' = [base EXCEPT ![nid] = Release(base[nid])]
         /\ req' = [req EXCEPT ![r] =
               Advanced([req[r] EXCEPT !.curr_node = nid], base[nid], FALSE, waited)]
         /\ pc' = [pc EXCEPT ![r] = "walk"]
    ELSE /\ nodes' = base
         /\ req' = [req EXCEPT ![r].curr_node = nid]
         /\ pc' = [pc EXCEPT ![r] = IF waited THEN "extract_w" ELSE "extract"]

\* Lines 358-360: one more iteration: setdefault, then async with curr_node.lock.
WalkVisit(r) ==
    /\ pc[r] = "walk"
    /\ LoopCondition(req[r])
    /\ Len(req[r].log) < MaxVisits
    /\ LET cur == req[r].curr_msg
           fresh == msg_nodes[cur] = None
           nid == IF fresh THEN Len(nodes) + 1 ELSE msg_nodes[cur]
           base == IF fresh THEN Append(nodes, MsgNode(None, FALSE)) ELSE nodes
       IN /\ msg_nodes' = [msg_nodes EXCEPT ![cur] = nid]
          /\ IF base[nid].lock = FreeLock
             THEN Locked(r, [base EXCEPT ![nid].lock.holder = r], nid, FALSE)
             ELSE /\ nodes' = [base EXCEPT ![nid].lock.waiters = Append(@, r)]
                  /\ req' = [req EXCEPT ![r].curr_node = nid]
                  /\ pc' = [pc EXCEPT ![r] = "lockwait"]
    /\ UNCHANGED <<msgs, strm>>
    /\ UNCHANGED svc

\* asyncio.Lock: the first waiter gets the lock once it is released.
WalkWake(r) ==
    /\ pc[r] = "lockwait"
    /\ LET nid == req[r].curr_node IN
       /\ nodes[nid].lock.holder = None
       /\ Head(nodes[nid].lock.waiters) = r
       /\ Locked(r, [nodes EXCEPT ![nid].lock =
                        [holder |-> r, waiters |-> Tail(nodes[nid].lock.waiters)]],
                 nid, TRUE)
    /\ UNCHANGED <<msgs, msg_nodes, strm>>
    /\ UNCHANGED svc

\* Lines 361-460 for an unresolved node.
WalkExtract(r) ==
    /\ pc[r] \in {"extract", "extract_w"}
    /\ LET nid == req[r].curr_node
           m == msgs[req[r].curr_msg]
       IN \E oks \in OkChoices(m) : \E outcome \in FetchOutcomes(m) :
          LET node == Extracted(nodes[nid], m, req[r].cfg, oks, outcome) IN
          /\ nodes' = [nodes EXCEPT ![nid] = Release(node)]
          /\ req' = [req EXCEPT ![r] =
                Advanced(req[r], node, TRUE, pc[r] = "extract_w")]
    /\ pc' = [pc EXCEPT ![r] = "walk"]
    /\ UNCHANGED <<msgs, msg_nodes, strm>>
    /\ UNCHANGED svc

SystemTurn == [role |-> "system", content |-> [isStr |-> TRUE, text |-> <<SystemCh>>, parts |-> <<>>], src |-> None]

\* A prompt that keeps the turns in visiting order.
PromptNotReversed(messages, cfg) ==
    (IF cfg.system_prompt /\ ~cfg.grok THEN <<SystemTurn>> ELSE <<>>)
    \o messages

\* Lines 462-484.
Prompt(messages, cfg) ==
    (IF cfg.system_prompt /\ ~cfg.grok THEN <<SystemTurn>> ELSE <<>>)
    \o Reverse(messages)

\* The loop ends; bot_client.py line 340 then resets internet_used on the
\* triggering message's node, which raises KeyError if the cache has no such node.
WalkDone(r) ==
    /\ pc[r] = "walk"
    /\ ~LoopCondition(req[r])
    /\ req' = [req EXCEPT ![r].messages = Prompt(req[r].messages, req[r].cfg)]
    /\ IF msg_nodes[req[r].new_msg] = None
       THEN /\ pc' = [pc EXCEPT ![r] = "raised"]
            /\ nodes' = nodes
       ELSE /\ pc' = [pc EXCEPT ![r] = "built"]
            /\ nodes' = [nodes EXCEPT ![msg_nodes[req[r].new_msg]].internet_used = FALSE]
    /\ UNCHANGED <<msgs, msg_nodes, strm>>
    /\ UNCHANGED svc

(***************************************************************************)
(* Augmentation (message_processor.py lines 487-783).                      *)
(***************************************************************************)
LastUser(messages) ==
    LET us == {i \in 1 .. Len(messages) : messages[i].role = "user"} IN
    IF us = {} THEN 0 ELSE CHOOSE i \in us : \A j \in us : j <= i

FirstTextPart(parts) ==
    LET ts == {i \in 1 .. Len(parts) : parts[i].type = "text"} IN
    IF ts = {} THEN 0 ELSE CHOOSE i \in ts : \A j \in ts : i <= j

\* Lines 586-596.
UpdatedContent(c, new_content) ==
    IF c.isStr THEN [c EXCEPT !.text = new_content]
    ELSE IF FirstTextPart(c.parts) # 0
    THEN [c EXCEPT !.parts[FirstTextPart(c.parts)].text = new_content]
    ELSE [c EXCEPT !.parts = <<TextPart(new_content)>> \o c.parts]

\* Lines 584-597: the turn to rewrite is the last one of role user.
TargetTurn(messages) == LastUser(messages)

update_user_message_content(messages, new_content) ==
    IF TargetTurn(messages) = 0 THEN messages
    ELSE [messages EXCEPT ![TargetTurn(messages)].content =
            UpdatedContent(messages[TargetTurn(messages)].content, new_content)]

\* is_special_command; "sauce" is handled like "lens".
is_special_command(content) == content # <<>> /\ Head(content) = LensCh

extract_urls_from_text(content) == Contains(content, UrlCh)

\* Lines 552-559, 693-697 and 773-777.
AugmentedText(content) ==
    IF is_special_command(content)
    THEN <<AugTagCh>> \o Escape(LStrip(Tail(content))) \o <<ResultsCh>>
    ELSE <<AugTagCh>> \o Escape(content) \o <<ResultsCh>>

\* rephrase_query lines 132-147 and _check_for_text_file: 'not_needed' without
\* asking the model.
TurnHasTextFile(c) ==
    IF c.isStr THEN Contains(c.text, TextFileCh)
    ELSE \E i \in 1 .. Len(c.parts) : Contains(c.parts[i].text, TextFileCh)

RephraseSkipped(messages) ==
    LastUser(messages) = 0 \/ TurnHasTextFile(messages[LastUser(messages)].content)

\* A write that lands on the node the walk visited last.
AugmentedNodeLastVisited(q) == q.curr_node

\* msg_nodes[new_msg.id], the node the augmentation writes to.
AugmentedNode(q) == msg_nodes[q.new_msg]

\* The writes to msg_nodes[new_msg.id] of a successful augmentation: the prompt
\* turn and the node's text; KeyError when the node is no longer cached.
ApplyAugmentation(r, next_pc) ==
    LET q == req[r]
        nid == AugmentedNode(q)
        new_content == AugmentedText(msgs[q.new_msg].content)
    IN /\ req' = [req EXCEPT ![r].messages =
                              update_user_message_content(q.messages, new_content),
                          ![r].augmented = nid # None]
       /\ IF nid = None
          THEN /\ pc' = [pc EXCEPT ![r] = "raised"]
               /\ nodes' = nodes
          ELSE /\ pc' = [pc EXCEPT ![r] = next_pc]
               /\ nodes' = [nodes EXCEPT ![nid].text = new_content,
                                         ![nid].internet_used = TRUE]

EditProgress(r, content) ==
    msgs' = [msgs EXCEPT ![req[r].progress_message].content = content]

\* _handle_special_command: lens / sauce with an image attachment.  The LLM
\* response of a special command shows no warnings (bot_client.py line 424).
AugmentLens(r) ==
    /\ pc[r] = "built"
    /\ is_special_command(msgs[req[r].new_msg].content)
    /\ msgs[req[r].new_msg].atts # <<>>
    /\ \E ok \in BOOLEAN :
         IF ok
         THEN /\ ApplyAugmentation(r, "llm")
              /\ msgs' = msgs
         ELSE /\ EditProgress(r, <<ErrorCh>>)
              /\ pc' = [pc EXCEPT ![r] = "prune"]
              /\ UNCHANGED <<nodes, req>>
    /\ UNCHANGED <<msg_nodes, strm>>
    /\ UNCHANGED svc

\* _handle_urls_in_message.
AugmentUrls(r) ==
    /\ pc[r] = "built"
    /\ ~is_special_command(msgs[req[r].new_msg].content)
    /\ extract_urls_from_text(msgs[req[r].new_msg].content)
    /\ ApplyAugmentation(r, "llm")
    /\ UNCHANGED <<msgs, msg_nodes, strm>>
    /\ UNCHANGED svc

\* What split_query can return: the list of queries, which is empty when the
\* model answered with an empty array (query_splitter_handler.py line 225).
SearchQueries == { <<>>, <<1>> }

\* _handle_web_search up to the search: rephrase_query and split_query.
WebSearchDecide(r, answers) ==
    /\ pc[r] = "built"
    /\ ~is_special_command(msgs[req[r].new_msg].content)
    /\ ~extract_urls_from_text(msgs[req[r].new_msg].content)
    /\ \E needed \in (IF RephraseSkipped(req[r].messages) THEN {FALSE} ELSE answers) :
       \E split_queries \in SearchQueries :
         IF ~needed
         THEN /\ pc' = [pc EXCEPT ![r] = "llm"]
              /\ UNCHANGED <<nodes, req>>
         ELSE IF msg_nodes[req[r].new_msg] = None
         THEN /\ pc' = [pc EXCEPT ![r] = "raised"]
              /\ UNCHANGED <<nodes, req>>
         ELSE /\ pc' = [pc EXCEPT ![r] = "searching"]
              /\ req' = [req EXCEPT ![r].augmented = TRUE]
              /\ nodes' = [nodes EXCEPT
                    ![msg_nodes[req[r].new_msg]].serper_queries = split_queries,
                    ![msg_nodes[req[r].new_msg]].internet_used = TRUE]
    /\ UNCHANGED <<msgs, msg_nodes, strm>>
    /\ UNCHANGED svc

\* _handle_web_search lines 769-781, after handle_search_queries returned.
WebSearchApply(r) ==
    /\ pc[r] = "searching"
    /\ ApplyAugmentation(r, "llm")
    /\ UNCHANGED <<msgs, msg_nodes, strm>>
    /\ UNCHANGED svc

\* lens / sauce without an attachment: an error text, no LLM call.
LensNoImage(r) ==
    /\ pc[r] = "built"
    /\ is_special_command(msgs[req[r].new_msg].content)
    /\ msgs[req[r].new_msg].atts = <<>>
    /\ EditProgress(r, <<ErrorCh>>)
    /\ pc' = [pc EXCEPT ![r] = "prune"]
    /\ UNCHANGED <<nodes, msg_nodes, req, strm>>
    /\ UNCHANGED svc

(***************************************************************************)
(* The LLM call (bot_client.py lines 456-518).  get_completion only builds *)
(* the stream, so it always succeeds; the handler's locals are set up.     *)
(***************************************************************************)
STREAMING_INDICATOR == <<SpaceCh, IndicatorCh>>

Last(s) == s[Len(s)]

LLMCall(r) ==
    /\ pc[r] = "llm"
    /\ LET q == req[r]
           special == is_special_command(msgs[q.new_msg].content)
           nid == msg_nodes[q.new_msg]
       IN IF ~special /\ nid = None
          THEN /\ pc' = [pc EXCEPT ![r] = "raised"]
               /\ strm' = strm
          ELSE /\ pc' = [pc EXCEPT ![r] =
                     IF q.cfg.use_plain_responses THEN "plain" ELSE "stream"]
               /\ strm' = [strm EXCEPT ![r] =
                     [IdleStrm EXCEPT
                        !.searched_for_text =
                            IF ~special /\ nodes[nid].serper_queries # <<>>
                            THEN <<SearchedCh>> ELSE <<>>,
                        !.user_warnings =
                            IF special THEN {} ELSE q.user_warnings]]
    /\ UNCHANGED <<msgs, nodes, msg_nodes, req>>
    /\ UNCHANGED svc

(***************************************************************************)
(* handle_streaming_response (response_handler.py lines 190-504).          *)
(***************************************************************************)
\* Lines 237 and 240.
first_msg_content_limit(s) ==
    discord_embed_limit - Len(s.searched_for_text) - Len(STREAMING_INDICATOR)

cont_msg_content_limit == discord_embed_limit - Len(STREAMING_INDICATOR)

\* Lines 299-300 and 393-396: the limit of the segment when there are n of them.
SegmentLimit(s, n) ==
    IF n = 1 THEN first_msg_content_limit(s) ELSE cont_msg_content_limit

\* A split test that uses the limit of the continuation messages everywhere.
NeedsSplitContLimit(s, seg, prev) == Len(seg \o prev) > cont_msg_content_limit

\* Lines 298-301.
NeedsSplit(s, seg, prev) == Len(seg \o prev) > SegmentLimit(s, Len(s.response_contents))

\* The next characters the model sends.
Token(s, k) == [i \in 1 .. k |-> StreamBase + s.produced + i]

\* A message edit reaches the platform.
ApplyEdit(ms, e) ==
    IF e.msg = None THEN ms
    ELSE [ms EXCEPT ![e.msg].content = <<>>,
                    ![e.msg].embed = e.embed,
                    ![e.msg].color = e.color,
                    ![e.msg].ever_complete = @ \/ e.color = "complete"]

\* Lines 427-431.
EmbedColor(msg_split_incoming, is_good_finish) ==
    IF msg_split_incoming \/ is_good_finish THEN "complete" ELSE "incomplete"

\* Lines 400-404.
IsGoodFinish(fin) == fin \in {"stop", "end_turn"}

\* Lines 71-75 and 117-121: the node of a new response message, its lock taken.
ResponseNode(r, internet_used) ==
    [MsgNode(req[r].new_msg, internet_used) EXCEPT !.lock.holder = r]

\* Lines 498-503: release the lock of every response message still cached.
RECURSIVE ReleaseAll(_, _, _)
ReleaseAll(ns, map, ids) ==
    IF ids = <<>> THEN ns
    ELSE ReleaseAll(IF map[Head(ids)] = None THEN ns
                    ELSE [ns EXCEPT ![map[Head(ids)]] = Release(@)],
                    map, Tail(ids))

\* Line 53 of constants.py.
EDIT_DELAY_SECONDS == 1

\* The whole seconds since last_task_time, counted up to EDIT_DELAY_SECONDS,
\* when dt more seconds have passed.
Since(s, dt) ==
    IF s.since + dt < EDIT_DELAY_SECONDS THEN s.since + dt ELSE EDIT_DELAY_SECONDS

ReadyToEditAlways(edit_task, since) == TRUE

\* Lines 385-388.
ReadyToEdit(edit_task, since) ==
    edit_task # "pending" /\ since >= EDIT_DELAY_SECONDS

IsFinalEditOnSplitOnly(fin, msg_split_incoming) == msg_split_incoming

\* Line 399.
IsFinalEdit(fin, msg_split_incoming) == fin # "none" \/ msg_split_incoming

\* One iteration of the loop of lines 245-479 on a chunk with content c and
\* finish reason fin that arrives dt seconds after the chunk before it.  An
\* edit task that the iteration awaits completes.
StreamChunk(r, c, fin, dt) ==
    /\ pc[r] = "stream"
    /\ LET s == strm[r]
           q == req[r]
           prev == s.prev_content
           rc == s.response_contents
           active == rc # <<>> \/ prev # <<>>
           first == active /\ rc = <<>>
           split == active /\ rc # <<>> /\ NeedsSplit(s, Last(rc), prev)
           creates == first \/ split
           rc1 == IF creates THEN Append(rc, <<>>) ELSE rc
           rc2 == IF active THEN [rc1 EXCEPT ![Len(rc1)] = @ \o prev] ELSE rc1
           new_id == IF first THEN q.progress_message ELSE Len(msgs) + 1
           user_node == msg_nodes[q.new_msg]
           \* lines 306-345: the closing edit of the previous segment
           prev_edit == [NoEdit EXCEPT
                         !.msg = IF split THEN Last(s.response_msgs) ELSE None,
                         !.embed = (IF Len(rc1) = 2 THEN s.searched_for_text ELSE <<>>)
                                   \o (IF split THEN Last(rc) ELSE <<>>)
                                   \o STREAMING_INDICATOR,
                         !.color = "incomplete"]
           ms1 == IF split
                  THEN Append(ApplyEdit(ApplyEdit(msgs, s.edit), prev_edit),
                              [Message("bot", <<>>, STREAMING_INDICATOR, <<>>,
                                       Last(s.response_msgs))
                               EXCEPT !.color = "incomplete"])
                  ELSE IF first
                  THEN ApplyEdit(msgs, [NoEdit EXCEPT
                                        !.msg = new_id,
                                        !.embed = s.searched_for_text \o STREAMING_INDICATOR,
                                        !.color = "incomplete"])
                  ELSE msgs
           task1 == IF split THEN "done" ELSE s.edit_task
           pend1 == IF split THEN NoEdit ELSE s.edit
           rmsgs == IF creates THEN Append(s.response_msgs, new_id) ELSE s.response_msgs
           \* lines 385-407
           \* last_task_time is set anew when a message is created
           since == IF creates THEN 0 ELSE Since(s, dt)
           ready_to_edit == ReadyToEdit(task1, since)
           msg_split_incoming ==
               active /\ Len(Last(rc2) \o c) > SegmentLimit(s, Len(rc2))
           is_final_edit == IsFinalEdit(fin, msg_split_incoming)
           edits == active /\ (ready_to_edit \/ is_final_edit)
           new_edit == [msg |-> Last(rmsgs),
                        embed |-> (IF Len(rmsgs) = 1 THEN s.searched_for_text ELSE <<>>)
                                  \o Last(rc2)
                                  \o (IF is_final_edit THEN <<>> ELSE STREAMING_INDICATOR),
                        color |-> EmbedColor(msg_split_incoming, IsGoodFinish(fin)),
                        final |-> is_final_edit,
                        prev_done |-> task1 # "pending",
                        since |-> since]
       IN /\ creates => Len(msgs) < MaxId
          /\ IF (creates \/ (edits /\ ~q.cfg.grok)) /\ user_node = None
             THEN \* KeyError on msg_nodes[user_message_id]: lines 492-504
                  /\ nodes' = ReleaseAll(nodes, msg_nodes, s.response_msgs)
                  /\ pc' = [pc EXCEPT ![r] = "raised"]
                  /\ UNCHANGED <<msgs, msg_nodes, strm>>
             ELSE /\ msgs' = IF edits THEN ApplyEdit(ms1, pend1) ELSE ms1
                  /\ nodes' = IF creates
                              THEN Append(nodes, ResponseNode(r, nodes[user_node].internet_used))
                              ELSE nodes
                  /\ msg_nodes' = IF creates
                                  THEN [msg_nodes EXCEPT ![new_id] = Len(nodes) + 1]
                                  ELSE msg_nodes
                  /\ strm' = [strm EXCEPT ![r] =
                        [s EXCEPT
                           !.response_msgs = rmsgs,
                           !.response_nodes = IF creates THEN Append(@, Len(nodes) + 1) ELSE @,
                           !.response_contents = rc2,
                           !.prev_content = c,
                           !.finish_reason = fin,
                           !.produced = @ + Len(c),
                           !.oversized = @ \/ (active /\ Len(prev) > SegmentLimit(s, Len(rc1))),
                           !.edit_task = IF edits THEN "pending" ELSE task1,
                           !.edit = IF edits THEN new_edit ELSE pend1,
                           !.since = IF edits THEN 0 ELSE since]]
                  /\ pc' = [pc EXCEPT ![r] = IF fin = "none" THEN "stream" ELSE "stream_end"]
    /\ UNCHANGED req
    /\ UNCHANGED svc

\* The stream or a platform call raises inside the loop: lines 492-504.
StreamRaise(r) ==
    /\ pc[r] = "stream"
    /\ nodes' = ReleaseAll(nodes, msg_nodes, strm[r].response_msgs)
    /\ pc' = [pc EXCEPT ![r] = "raised"]
    /\ UNCHANGED <<msgs, msg_nodes, req, strm>>
    /\ UNCHANGED svc

\* An edit task that nobody awaits finishes: the edit reaches the platform
\* or fails, and the failure is never looked at.
EditResolve(r) ==
    /\ strm[r].edit_task = "pending"
    /\ \E ok \in BOOLEAN :
         /\ msgs' = IF ok THEN ApplyEdit(msgs, strm[r].edit) ELSE msgs
         /\ strm' = [strm EXCEPT ![r].edit_task = IF ok THEN "done" ELSE "failed",
                                 ![r].edit = NoEdit]
    /\ UNCHANGED <<nodes, msg_nodes, pc, req>>
    /\ UNCHANGED svc

\* A final text that keeps the last segment only.
LastSegmentOnly(response_contents) ==
    IF response_contents = <<>> THEN <<>> ELSE Last(response_contents)

\* Lines 483 and 574: "".join(response_contents).
FinalText(response_contents) == Concat(response_contents)

\* Lines 482-484 and 573-575: text and release, message by message.
RECURSIVE Finalize(_, _, _, _)
Finalize(ns, map, ids, text) ==
    IF ids = <<>> THEN ns
    ELSE Finalize([ns EXCEPT ![map[Head(ids)]] = Release([@ EXCEPT !.text = text])],
                  map, Tail(ids), text)

\* bot_client.py lines 566-582, right after the response handler returned:
\* the image task is created if the triggering node is cached and has
\* search queries.  create_task does not suspend.
ImageTaskCreated(r, ns, map) ==
    LET nid == map[req[r].new_msg] IN
    IF nid # None /\ ns[nid].serper_queries # <<>>
    THEN [pc |-> "fetching", queries |-> ns[nid].serper_queries, node |-> None]
    ELSE NoImageTask

\* The stream is exhausted: lines 481-490, or 492-504 when a response
\* message has no cached node any more.
StreamFinish(r) ==
    /\ pc[r] \in {"stream", "stream_end"}
    /\ LET s == strm[r] IN
       IF \E i \in 1 .. Len(s.response_msgs) : msg_nodes[s.response_msgs[i]] = None
       THEN /\ nodes' = ReleaseAll(nodes, msg_nodes, s.response_msgs)
            /\ pc' = [pc EXCEPT ![r] = "raised"]
            /\ strm' = strm
       ELSE /\ nodes' = Finalize(nodes, msg_nodes, s.response_msgs,
                                 FinalText(s.response_contents))
            /\ pc' = [pc EXCEPT ![r] = "prune"]
            /\ strm' = [strm EXCEPT ![r].completed = TRUE,
                                    ![r].image_task = ImageTaskCreated(r, nodes, msg_nodes)]
    /\ UNCHANGED <<msgs, msg_nodes, req>>
    /\ UNCHANGED svc

\* on_message lines 282-289: the catch-all edits the placeholder; when the
\* edit itself raises, that exception leaves on_message.
TopLevelCatch(r) ==
    /\ pc[r] = "raised"
    /\ \E ok \in BOOLEAN :
         /\ msgs' = IF ok
                    THEN [msgs EXCEPT ![req[r].progress_message].content = <<ErrorCh>>]
                    ELSE msgs
         /\ req' = [req EXCEPT ![r].catch = IF ok THEN "edited" ELSE "escaped"]
    /\ pc' = [pc EXCEPT ![r] = "done"]
    /\ UNCHANGED <<nodes, msg_nodes, strm>>
    /\ UNCHANGED svc

(***************************************************************************)
(* Plain responses: BotClient._handle_plain_text_response collects the     *)
(* segments, ResponseHandler.handle_plain_text_response sends them.        *)
(***************************************************************************)
\* bot_client.py lines 605-624: one iteration of the collecting loop.
PlainChunk(r, c, fin) ==
    /\ pc[r] = "plain"
    /\ LET s == strm[r]
           prev == s.prev_content
           rc == s.response_contents
           active == rc # <<>> \/ prev # <<>>
           rc1 == IF active /\ (rc = <<>> \/ Len(Last(rc) \o prev) > PlainLimit)
                  THEN Append(rc, <<>>) ELSE rc
           rc2 == IF active THEN [rc1 EXCEPT ![Len(rc1)] = @ \o prev] ELSE rc1
       IN strm' = [strm EXCEPT ![r] =
             [s EXCEPT !.response_contents = rc2, !.prev_content = c,
                       !.finish_reason = fin, !.produced = @ + Len(c),
                       !.oversized = @ \/ Len(prev) > PlainLimit]]
    /\ pc' = [pc EXCEPT ![r] = IF fin = "none" THEN "plain" ELSE "plain_end"]
    /\ UNCHANGED <<msgs, nodes, msg_nodes, req>>
    /\ UNCHANGED svc

\* The stream raises while the segments are collected; nothing was sent.
PlainRaise(r) ==
    /\ pc[r] = "plain"
    /\ pc' = [pc EXCEPT ![r] = "raised"]
    /\ UNCHANGED <<msgs, nodes, msg_nodes, req, strm>>
    /\ UNCHANGED svc

\* The stream is exhausted: response_handler.py lines 531-538; with no
\* segment the loops of lines 538 and 573 do nothing.
PlainCollected(r) ==
    /\ pc[r] \in {"plain", "plain_end"}
    /\ IF strm[r].response_contents = <<>>
       THEN /\ pc' = [pc EXCEPT ![r] = "prune"]
            /\ strm' = [strm EXCEPT ![r].completed = TRUE,
                                    ![r].image_task = ImageTaskCreated(r, nodes, msg_nodes)]
       ELSE /\ pc' = [pc EXCEPT ![r] = "plain_send"]
            /\ strm' = strm
    /\ UNCHANGED <<msgs, nodes, msg_nodes, req>>
    /\ UNCHANGED svc

\* Lines 538-588: the next segment is sent.  A send that fails raises, and
\* the except clause of lines 583-588 re-raises without touching the locks.
\* After the last send the loop of lines 573-575 runs without suspending.
PlainSend(r) ==
    /\ pc[r] = "plain_send"
    /\ LET s == strm[r]
           q == req[r]
           i == Len(s.response_msgs) + 1
           new_id == IF i = 1 THEN q.progress_message ELSE Len(msgs) + 1
           rmsgs == Append(s.response_msgs, new_id)
           ns1 == Append(nodes, [MsgNode(q.new_msg, FALSE) EXCEPT !.lock.holder = r])
           map1 == [msg_nodes EXCEPT ![new_id] = Len(nodes) + 1]
           last == i = Len(s.response_contents)
       IN /\ Len(msgs) < MaxId
          /\ \E ok \in BOOLEAN :
             IF ~ok
             THEN /\ pc' = [pc EXCEPT ![r] = "raised"]
                  /\ UNCHANGED <<msgs, nodes, msg_nodes, strm>>
             ELSE /\ msgs' = IF i = 1
                             THEN [msgs EXCEPT ![new_id].content = s.response_contents[i]]
                             ELSE Append(msgs, Message("bot", s.response_contents[i], <<>>,
                                                       <<>>, Last(s.response_msgs)))
                  /\ msg_nodes' = map1
                  /\ nodes' = IF last
                              THEN Finalize(ns1, map1, rmsgs, FinalText(s.response_contents))
                              ELSE ns1
                  /\ strm' = [strm EXCEPT ![r].response_msgs = rmsgs,
                                          ![r].response_nodes = Append(@, Len(nodes) + 1),
                                          ![r].completed = last,
                                          ![r].image_task =
                                              IF last THEN ImageTaskCreated(r, ns1, map1)
                                              ELSE NoImageTask]
                  /\ pc' = [pc EXCEPT ![r] = IF last THEN "prune" ELSE "plain_send"]
    /\ UNCHANGED req
    /\ UNCHANGED svc

(***************************************************************************)
(* fetch_images_and_update_views (image_processor.py lines 23-110), the    *)
(* background task of a request whose web search fired.                    *)
(***************************************************************************)
\* The coroutine of the image task of request r, as a lock holder or waiter.
ImageTaskOf(r) == r + Cardinality(Reqs)

\* Lines 109-110: the images are stored on msg_nodes[user_msg_id], which is
\* looked up again inside the lock; KeyError ends the task (lines 88-89).
ImagesStored(r, ns) ==
    LET nid == msg_nodes[req[r].new_msg] IN
    IF nid = None THEN ns
    ELSE [ns EXCEPT ![nid].image_files = strm[r].image_task.queries]

\* fetch_images returns or raises (lines 55-57, 88-89); with the node still
\* cached (line 66) the task takes the node's lock (line 108): a free lock
\* at once, else it queues holding no lock.
ImageFetched(r) ==
    /\ strm[r].image_task.pc = "fetching"
    /\ \E ok \in BOOLEAN :
         LET nid == msg_nodes[req[r].new_msg] IN
         IF ~ok \/ nid = None
         THEN /\ strm' = [strm EXCEPT ![r].image_task.pc = "done"]
              /\ nodes' = nodes
         ELSE IF nodes[nid].lock = FreeLock
         THEN /\ strm' = [strm EXCEPT ![r].image_task.pc = "done"]
              /\ nodes' = ImagesStored(r, nodes)
         ELSE /\ strm' = [strm EXCEPT ![r].image_task.pc = "lockwait",
                                      ![r].image_task.node = nid]
              /\ nodes' = [nodes EXCEPT ![nid].lock.waiters = Append(@, ImageTaskOf(r))]
    /\ UNCHANGED <<msgs, msg_nodes, pc, req>>
    /\ UNCHANGED svc

\* The lock is released to the image task: lines 108-110 run without
\* suspending and the lock is released again.
ImageWake(r) ==
    /\ strm[r].image_task.pc = "lockwait"
    /\ LET nid == strm[r].image_task.node IN
       /\ nodes[nid].lock.holder = None
       /\ Head(nodes[nid].lock.waiters) = ImageTaskOf(r)
       /\ nodes' = ImagesStored(r, [nodes EXCEPT ![nid].lock.waiters = Tail(@)])
    /\ strm' = [strm EXCEPT ![r].image_task.pc = "done"]
    /\ UNCHANGED <<msgs, msg_nodes, pc, req>>
    /\ UNCHANGED svc

(***************************************************************************)
(* BotClient._manage_message_cache (bot_client.py lines 641-657).          *)
(***************************************************************************)
Cached == {i \in MsgIds : msg_nodes[i] # None}

RECURSIVE Sorted(_)
Sorted(S) ==
    IF S = {} THEN <<>>
    ELSE LET m == CHOOSE x \in S : \A y \in S : x <= y
         IN <<m>> \o Sorted(S \ {m})

\* Lines 651-657 from victim Head(victims) on, up to the first lock that is
\* not free: async with msg_nodes.setdefault(msg_id, MsgNode()).lock: pop.
\* Taking a free lock does not suspend, so the loop runs on without any other
\* coroutine in between; on a lock that is held, or that has waiters, the
\* pruning coroutine r queues and suspends.
RECURSIVE PruneLoop(_, _, _, _)
PruneLoop(r, ns, map, victims) ==
    IF victims = <<>>
    THEN [nodes |-> ns, msg_nodes |-> map, victims |-> <<>>,
          prune_node |-> None, pc |-> "done"]
    ELSE LET id == Head(victims)
             fresh == map[id] = None
             nid == IF fresh THEN Len(ns) + 1 ELSE map[id]
             base == IF fresh THEN Append(ns, MsgNode(None, FALSE)) ELSE ns
         IN IF base[nid].lock = FreeLock
            THEN PruneLoop(r, base, [map EXCEPT ![id] = None], Tail(victims))
            ELSE [nodes |-> [base EXCEPT ![nid].lock.waiters = Append(@, r)],
                  msg_nodes |-> [map EXCEPT ![id] = nid],
                  victims |-> victims, prune_node |-> nid, pc |-> "prunewait"]

Pruned(r, p) ==
    /\ nodes' = p.nodes
    /\ msg_nodes' = p.msg_nodes
    /\ strm' = [strm EXCEPT ![r].victims = p.victims, ![r].prune_node = p.prune_node]
    /\ pc' = [pc EXCEPT ![r] = p.pc]

\* Lines 646-657: the ids to drop are computed once, then dropped one by one.
PruneStart(r) ==
    /\ pc[r] = "prune"
    /\ Pruned(r, PruneLoop(r, nodes, msg_nodes,
                 IF Cardinality(Cached) > MAX_MESSAGE_NODES
                 THEN Take(Sorted(Cached), Cardinality(Cached) - MAX_MESSAGE_NODES)
                 ELSE <<>>))
    /\ UNCHANGED <<msgs, req>>
    /\ UNCHANGED svc

\* The lock the pruning coroutine waits for is released and it is the first
\* waiter: it takes the lock, pops the id it was working on, releases the
\* lock and goes on with the next ids.
PruneWake(r) ==
    /\ pc[r] = "prunewait"
    /\ LET nid == strm[r].prune_node IN
       /\ nodes[nid].lock.holder = None
       /\ Head(nodes[nid].lock.waiters) = r
       /\ Pruned(r, PruneLoop(r,
                    [nodes EXCEPT ![nid].lock.waiters = Tail(@)],
                    [msg_nodes EXCEPT ![Head(strm[r].victims)] = None],
                    Tail(strm[r].victims)))
    /\ UNCHANGED <<msgs, req>>
    /\ UNCHANGED svc

\* A request that has delivered its response goes on to
\* _manage_message_cache without suspending (bot_client.py lines 535-582
\* and 366-367): no other coroutine runs before its PruneStart.
NoPruneDue == \A r \in Reqs : pc[r] # "prune"

(***************************************************************************)
(* The chain builder and the augmentation of one request, on every chain.  *)
(***************************************************************************)
StartChain ==
    \E t \in TrigTemplates : \E cfg \in ChainCfgs :
      OnMessage(1, t, IF msgs = <<>> THEN None ELSE Len(msgs), cfg)

NextChain ==
    \/ UserPost
    \/ StartChain
    \/ WalkVisit(1)
    \/ WalkExtract(1)
    \/ WalkDone(1)
    \/ AugmentLens(1)
    \/ AugmentUrls(1)
    \/ WebSearchDecide(1, BOOLEAN)
    \/ WebSearchApply(1)
    \/ LensNoImage(1)

SpecChain == Init /\ [][NextChain]_vars

(***************************************************************************)
(* Two requests that interleave at their awaits: the second message        *)
(* replies to any message that exists when it arrives.                     *)
(***************************************************************************)
MaxStream == 2 * cont_msg_content_limit

\* The first request answers in either mode, the second in plain mode.
Trigger(r) ==
    /\ r = 2 => pc[1] # "idle"
    /\ \E ref \in (IF msgs = <<>> THEN {None} ELSE 1 .. Len(msgs)) :
       \E plain \in (IF r = 1 THEN BOOLEAN ELSE {TRUE}) :
          OnMessage(r, [content |-> <<1>>, atts |-> IF r = 1 THEN <<"image">> ELSE <<>>],
                    ref, Config(MaxMessagesCfg, "text", plain))

\* The answer arrives as tokens of cont_msg_content_limit characters and a
\* closing chunk without content: up to two tokens for the first request,
\* one for the second.
Chunk(r) ==
    \E last \in BOOLEAN :
       LET k == IF last THEN 0 ELSE cont_msg_content_limit
           fin == IF last THEN "stop" ELSE "none"
       IN /\ strm[r].produced + k <= (IF r = 1 THEN MaxStream ELSE cont_msg_content_limit)
          /\ \/ StreamChunk(r, Token(strm[r], k), fin, 0)
             \/ PlainChunk(r, Token(strm[r], k), fin)

NextStep ==
    \/ \E r \in {1, 2} :
          \/ Trigger(r)
          \/ WalkVisit(r)
          \/ WalkWake(r)
          \/ WalkExtract(r)
          \/ WalkDone(r)
          \/ WebSearchDecide(r, IF r = 1 THEN BOOLEAN ELSE {FALSE})
          \/ LLMCall(r)
          \/ Chunk(r)
          \/ PlainCollected(r)
          \/ PlainSend(r)
          \/ TopLevelCatch(r)
          \/ PruneWake(r)
    \/ WebSearchApply(1)
    \/ StreamRaise(1)
    \/ StreamFinish(1)
    \/ PlainRaise(1)
    \/ ImageFetched(1)
    \/ ImageWake(1)

Next ==
    \/ \E r \in {1, 2} : PruneStart(r)
    \/ NoPruneDue /\ NextStep

Spec == Init /\ [][Next]_vars

(***************************************************************************)
(* Three requests around one answer: request 1 streams a rich answer,      *)
(* request 2 receives an empty stream, request 3 is a reply to the answer  *)
(* of request 1 and receives an empty stream too.                          *)
(***************************************************************************)
Trigger3(r) ==
    /\ r > 1 => pc[r - 1] # "idle"
    /\ OnMessage(r, [content |-> <<1>>, atts |-> <<>>],
                 IF r = 3 THEN req[1].progress_message ELSE None,
                 Config(MaxMessagesCfg, "text", r # 1))

Chunk3(r) ==
    \/ /\ r = 1
       /\ \E last \in BOOLEAN :
            /\ ~last => strm[1].produced = 0
            /\ StreamChunk(1, Token(strm[1], IF last THEN 0 ELSE cont_msg_content_limit),
                           IF last THEN "stop" ELSE "none", 0)
    \/ /\ r # 1
       /\ PlainChunk(r, <<>>, "stop")

NextStep3 ==
    \/ \E r \in Reqs :
          \/ Trigger3(r)
          \/ WalkVisit(r)
          \/ WalkWake(r)
          \/ WalkExtract(r)
          \/ WalkDone(r)
          \/ WebSearchDecide(r, {FALSE})
          \/ LLMCall(r)
          \/ Chunk3(r)
          \/ PlainCollected(r)
          \/ TopLevelCatch(r)
          \/ PruneWake(r)
    \/ StreamFinish(1)

Next3 ==
    \/ \E r \in Reqs : PruneStart(r)
    \/ NoPruneDue /\ NextStep3

Spec3 == Init /\ [][Next3]_vars

(***************************************************************************)
(* The event loop.  Spec and Spec3 let the coroutines take their steps in  *)
(* any order, which includes every order asyncio can produce.  SpecLoop    *)
(* and Spec3Loop keep the orders of one event loop only: a coroutine runs  *)
(* on until it suspends (between two visits of a chain walk, and between   *)
(* the end of a response and the pruning, it does not), and a coroutine    *)
(* woken by the release of a lock runs before the coroutines that wait for *)
(* the network.                                                            *)
(***************************************************************************)
\* Request r is in the middle of a run: it has not suspended since its last
\* step.
Running(r) ==
    \/ pc[r] = "prune"
    \/ pc[r] = "walk" /\ req[r].log # <<>>

\* Request r waits for a lock that has been released to it.
Woken(r) ==
    \/ /\ pc[r] = "lockwait"
       /\ nodes[req[r].curr_node].lock.holder = None
       /\ Head(nodes[req[r].curr_node].lock.waiters) = r
    \/ /\ pc[r] = "prunewait"
       /\ nodes[strm[r].prune_node].lock.holder = None
       /\ Head(nodes[strm[r].prune_node].lock.waiters) = r
    \/ /\ strm[r].image_task.pc = "lockwait"
       /\ nodes[strm[r].image_task.node].lock.holder = None
       /\ Head(nodes[strm[r].image_task.node].lock.waiters) = ImageTaskOf(r)

RunOn(r) == WalkVisit(r) \/ WalkDone(r) \/ PruneStart(r)

Wake(r) == WalkWake(r) \/ PruneWake(r) \/ ImageWake(r)

LoopStep(NextStepOfSpec) ==
    IF \E r \in Reqs : Running(r)
    THEN \E r \in Reqs : Running(r) /\ RunOn(r)
    ELSE IF \E r \in Reqs : Woken(r)
    THEN \E r \in Reqs : Wake(r)
    ELSE NextStepOfSpec

NextLoop == LoopStep(NextStep)

SpecLoop == Init /\ [][NextLoop]_vars

NextLoop3 == LoopStep(NextStep3)

Spec3Loop == Init /\ [][NextLoop3]_vars

(***************************************************************************)
(* One request in either mode, on every division of the answer into        *)
(* tokens and every arrival time of the chunks.                            *)
(***************************************************************************)
MaxToken == cont_msg_content_limit + 1

StartStream ==
    \E plain \in BOOLEAN :
       OnMessage(1, [content |-> <<1>>, atts |-> <<>>], None, Config(1, "text", plain))

AnyPlainChunk ==
    \E k \in 0 .. PlainLimit + 1 : \E fin \in {"none", "stop", "length"} :
       /\ strm[1].produced + k <= MaxStream
       /\ PlainChunk(1, Token(strm[1], k), fin)

AnyChunk ==
    \E k \in 0 .. MaxToken : \E fin \in {"none", "stop", "length"} :
    \E dt \in 0 .. EDIT_DELAY_SECONDS :
       /\ strm[1].produced + k <= MaxStream
       /\ StreamChunk(1, Token(strm[1], k), fin, dt)

NextStream ==
    \/ StartStream
    \/ WalkVisit(1)
    \/ WalkExtract(1)
    \/ WalkDone(1)
    \/ WebSearchDecide(1, BOOLEAN)
    \/ WebSearchApply(1)
    \/ LLMCall(1)
    \/ AnyChunk
    \/ StreamRaise(1)
    \/ EditResolve(1)
    \/ StreamFinish(1)
    \/ AnyPlainChunk
    \/ PlainRaise(1)
    \/ PlainCollected(1)
    \/ PlainSend(1)
    \/ TopLevelCatch(1)

SpecStream == Init /\ [][NextStream]_vars

\* The event loop runs every coroutine that can run, and a stream is finite:
\* the async for of either mode ends.
SpecStreamLive ==
    /\ SpecStream
    /\ WF_vars(NextStream)
    /\ WF_vars(StreamFinish(1))
    /\ WF_vars(PlainCollected(1))

(***************************************************************************)
(* SearchService.search (src/search/search_service.py lines 272-318).  A   *)
(* backend returns (results, None) or (None, error); Serper and Bing can   *)
(* return ([], None).  kind is "results", "empty" or "error".              *)
(***************************************************************************)
Backends == <<"searxng", "serper", "bing">>

BackendNo(b) == CHOOSE i \in 1 .. Len(Backends) : Backends[i] = b

\* What a backend can return for a search of at most max_urls results.
Outcomes(b, max_urls) ==
    { [kind |-> "results", results |-> [i \in 1 .. k |-> 100 * BackendNo(b) + i], error |-> None] :
        k \in 1 .. max_urls }
    \cup { [kind |-> "error", results |-> <<>>, error |-> e] : e \in {1, 2} }
    \cup (IF b = "searxng" THEN {}
          ELSE { [kind |-> "empty", results |-> <<>>, error |-> None] })

\* A fallback order that tries Bing before Serper.
BingBeforeSerper(b) ==
    IF b = "searxng" THEN "bing" ELSE IF b = "bing" THEN "serper" ELSE "done"

\* Lines 296-318: the backend tried after b, "done" after the last one.
NextBackend(b) ==
    IF b = "searxng" THEN "serper" ELSE IF b = "serper" THEN "bing" ELSE "done"

\* search is called: line 293, then the first backend is awaited.
SearchCall ==
    /\ search.pc = "idle"
    /\ \E q \in {1, 2} : \E n \in 1 .. MaxUrls :
         search' = [IdleSearch EXCEPT !.pc = "searxng", !.query = q, !.max_urls = n]
    /\ UNCHANGED <<core, splitter, rephraser, keymgr, fetcher, llm, finder, handler>>

\* The awaited backend returns: lines 296-300, 303-307 and 310-318.
SearchAttempt ==
    /\ search.pc \in {"searxng", "serper", "bing"}
    /\ \E out \in Outcomes(search.pc, search.max_urls) :
         search' = [search EXCEPT
            !.calls = Append(@, search.pc),
            !.returned = Append(@, out),
            !.results = IF out.results # <<>> THEN out.results ELSE <<>>,
            !.errors = IF out.results = <<>> /\ out.error # None
                       THEN Append(@, out.error) ELSE @,
            !.pc = IF out.results # <<>> THEN "done" ELSE NextBackend(search.pc)]
    /\ UNCHANGED <<core, splitter, rephraser, keymgr, fetcher, llm, finder, handler>>

\* The caller takes the result; the service is ready for the next search.
SearchReturn ==
    /\ search.pc = "done"
    /\ search' = IdleSearch
    /\ UNCHANGED <<core, splitter, rephraser, keymgr, fetcher, llm, finder, handler>>

NextSearch == SearchCall \/ SearchAttempt \/ SearchReturn

SpecSearch == Init /\ [][NextSearch]_vars

(***************************************************************************)
(* split_query (src/llm/query_splitter_handler.py).  The content of a      *)
(* model response is a sequence of tokens: "[", "]", ",", a JSON string    *)
(* ("q1", "q2"), a JSON number ("num") or other text ("word"); NullContent *)
(* is a response whose message.content is None.                            *)
(***************************************************************************)
max_retries == 5

NullContent == <<"null">>

Contents ==
    { NullContent,
      <<"word">>,
      <<"[", "q1", "]">>,
      <<"word", "[", "q1", ",", "q2", "]", "word">>,
      <<"[", "q1", ",", "num", "]">>,
      <<"[", "q1", "]", "word", "[", "q2", "]">>,
      <<"[", "q1", ",", "]">>,
      <<"[", "q1">>,
      <<"]", "[">>,
      <<"[", "]">> }

Positions(content, tok) == {i \in 1 .. Len(content) : content[i] = tok}

Min(S) == CHOOSE x \in S : \A y \in S : x <= y

Max(S) == CHOOSE x \in S : \A y \in S : y <= x

\* re.search(r'\[.*\]', content, re.DOTALL): from the first "[" to the last
\* "]" after it; <<>> when there is no match.
ArrayMatch(content) ==
    LET opens == Positions(content, "[")
        closes == {j \in Positions(content, "]") : opens # {} /\ j > Min(opens)}
    IN IF closes = {} THEN <<>> ELSE SubSeq(content, Min(opens), Max(closes))

\* json.loads accepts the match: elements separated by commas.
ValidJson(match) ==
    LET inner == SubSeq(match, 2, Len(match) - 1) IN
    \/ inner = <<>>
    \/ /\ Len(inner) % 2 = 1
       /\ \A i \in 1 .. Len(inner) :
             IF i % 2 = 1 THEN inner[i] \in {"q1", "q2", "num"} ELSE inner[i] = ","

Elements(match) ==
    LET inner == SubSeq(match, 2, Len(match) - 1) IN
    [k \in 1 .. (Len(inner) + 1) \div 2 |-> inner[2 * k - 1]]

\* Lines 203-249.
parse_query_splitter_response(content, original_query) ==
    IF ArrayMatch(content) = <<>> THEN <<original_query>>
    ELSE IF ~ValidJson(ArrayMatch(content)) THEN <<original_query>>
    ELSE IF \A i \in 1 .. Len(Elements(ArrayMatch(content))) :
               Elements(ArrayMatch(content))[i] \in {"q1", "q2"}
    THEN Elements(ArrayMatch(content))
    ELSE <<original_query>>

\* The key of the attempt after a failed one: the key the rotator returned,
\* or the key of the failed attempt when the rotator has none.
NextAttemptKeySame(api_key, new_api_key) == api_key

NextAttemptKey(api_key, new_api_key) ==
    IF new_api_key # "" THEN new_api_key ELSE api_key

\* Lines 84-91: the key of the first attempt.
SplitCall ==
    /\ splitter.pc = "idle"
    /\ \E q \in {"q1", "q2"} : \E key \in {"", "k1"} :
         splitter' = [IdleSplit EXCEPT
            !.pc = "calling", !.query = q,
            !.api_key = IF key = "" THEN "sk-no-key-required" ELSE key]
    /\ UNCHANGED <<core, search, rephraser, keymgr, fetcher, llm, finder, handler>>

\* Lines 151-190: attempt i fails; the next key is taken, and the last
\* attempt returns the original query.
SplitAttemptFails ==
    /\ splitter.pc = "calling"
    /\ \E new_api_key \in {"", "k1", "k2"} :
         splitter' = [splitter EXCEPT
            !.used = Append(@, splitter.api_key),
            !.taken = Append(@, new_api_key),
            !.api_key = NextAttemptKey(@, new_api_key),
            !.i = IF splitter.i = max_retries - 1 THEN @ ELSE @ + 1,
            !.pc = IF splitter.i = max_retries - 1 THEN "done" ELSE "calling",
            !.ret = IF splitter.i = max_retries - 1 THEN <<splitter.query>> ELSE @]
    /\ UNCHANGED <<core, search, rephraser, keymgr, fetcher, llm, finder, handler>>

\* Lines 157-158 and 192-200: attempt i returns a response;
\* response.choices[0].message.content.strip() raises on a None content.
SplitResponse ==
    /\ splitter.pc = "calling"
    /\ \E content \in Contents :
         splitter' = [splitter EXCEPT
            !.pc = "done",
            !.used = Append(@, splitter.api_key),
            !.content = content,
            !.raised = content = NullContent,
            !.ret = IF content = NullContent THEN <<>>
                    ELSE parse_query_splitter_response(content, splitter.query)]
    /\ UNCHANGED <<core, search, rephraser, keymgr, fetcher, llm, finder, handler>>

SplitReturn ==
    /\ splitter.pc = "done"
    /\ splitter' = IdleSplit
    /\ UNCHANGED <<core, search, rephraser, keymgr, fetcher, llm, finder, handler>>

NextSplit == SplitCall \/ SplitAttemptFails \/ SplitResponse \/ SplitReturn

SpecSplit == Init /\ [][NextSplit]_vars

(***************************************************************************)
(* rephrase_query (src/llm/rephraser_handler.py) and the decision of its   *)
(* caller _handle_web_search.  The content of a model response is a        *)
(* sequence of tokens: the tags "<question>" and "</question>", white      *)
(* space " ", and words; a text is the sequence of its tokens.             *)
(***************************************************************************)
rephraser_max_retries == 5

not_needed == <<"not_needed">>

RephraserContents ==
    { NullContent,
      <<"word">>,
      <<"<question>", "q1", "</question>">>,
      <<"word", "<question>", " ", "q1", " ", "</question>", "word">>,
      <<"<question>", "not_needed", "</question>">>,
      <<"<question>", " ", "Not_Needed", " ", "</question>">>,
      <<"<question>", "q1">>,
      <<"</question>", "<question>", "q1">>,
      <<"<question>", "</question>">>,
      <<"<question>", "q1", "</question>", "<question>", "q2", "</question>">> }

\* str.strip() on a token sequence.
Strip(text) ==
    LET solid == {i \in 1 .. Len(text) : text[i] # " "}
    IN IF solid = {} THEN <<>> ELSE SubSeq(text, Min(solid), Max(solid))

\* str.lower() on a token sequence.
Lower(text) ==
    [i \in 1 .. Len(text) |-> IF text[i] = "Not_Needed" THEN "not_needed" ELSE text[i]]

\* re.search(r'<question>\s*(.*?)\s*</question>', content, re.DOTALL): the
\* first opening tag and the first closing tag after it.
QuestionMatched(content) ==
    \E o \in Positions(content, "<question>") :
    \E c \in Positions(content, "</question>") : c > o

QuestionGroup(content) ==
    LET o == Min(Positions(content, "<question>"))
        c == Min({j \in Positions(content, "</question>") : j > o})
    IN Strip(SubSeq(content, o + 1, c - 1))

\* Lines 741-755.
ParseRephraserResponse(content) ==
    IF QuestionMatched(Strip(content))
    THEN IF Lower(QuestionGroup(Strip(content))) = not_needed
         THEN not_needed
         ELSE QuestionGroup(Strip(content))
    ELSE not_needed

\* rephrase_query lines 132-189: no user message or a text file in the latest
\* one returns 'not_needed' at once; otherwise the first key is taken.
RephraseCall ==
    /\ rephraser.pc = "idle"
    /\ \E latest_user_msg \in BOOLEAN : \E has_text_file \in BOOLEAN :
       \E key \in {"", "k1"} :
         rephraser' =
            IF ~latest_user_msg \/ has_text_file
            THEN [IdleRephrase EXCEPT !.pc = "done", !.ret = not_needed]
            ELSE [IdleRephrase EXCEPT
                    !.pc = "calling",
                    !.api_key = IF key = "" THEN "sk-no-key-required" ELSE key]
    /\ UNCHANGED <<core, search, splitter, keymgr, fetcher, llm, finder, handler>>

\* _make_rephraser_call lines 699-734: attempt i fails.
RephraseAttemptFails ==
    /\ rephraser.pc = "calling"
    /\ \E new_api_key \in {"", "k1", "k2"} :
         rephraser' = [rephraser EXCEPT
            !.used = Append(@, rephraser.api_key),
            !.taken = Append(@, new_api_key),
            !.api_key = NextAttemptKey(@, new_api_key),
            !.i = IF rephraser.i = rephraser_max_retries - 1 THEN @ ELSE @ + 1,
            !.pc = IF rephraser.i = rephraser_max_retries - 1
                   THEN "done" ELSE "calling",
            !.ret = IF rephraser.i = rephraser_max_retries - 1
                    THEN not_needed ELSE @]
    /\ UNCHANGED <<core, search, splitter, keymgr, fetcher, llm, finder, handler>>

\* Lines 706-707 and 736-755: attempt i returns a response;
\* response.choices[0].message.content.strip() raises on a None content.
RephraseResponse ==
    /\ rephraser.pc = "calling"
    /\ \E content \in RephraserContents :
         rephraser' = [rephraser EXCEPT
            !.pc = "done",
            !.used = Append(@, rephraser.api_key),
            !.content = content,
            !.raised = content = NullContent,
            !.ret = IF content = NullContent THEN <<>>
                    ELSE ParseRephraserResponse(content)]
    /\ UNCHANGED <<core, search, splitter, keymgr, fetcher, llm, finder, handler>>

\* _handle_web_search lines 752-783: the search runs unless the answer is
\* 'not_needed'; a raised exception leaves the function.
RephraseHandled ==
    /\ rephraser.pc = "done"
    /\ rephraser' = [rephraser EXCEPT
          !.pc = "handled",
          !.searched = ~rephraser.raised /\ rephraser.ret # not_needed]
    /\ UNCHANGED <<core, search, splitter, keymgr, fetcher, llm, finder, handler>>

RephraseReturn ==
    /\ rephraser.pc = "handled"
    /\ rephraser' = IdleRephrase
    /\ UNCHANGED <<core, search, splitter, keymgr, fetcher, llm, finder, handler>>

NextRephrase ==
    \/ RephraseCall
    \/ RephraseAttemptFails
    \/ RephraseResponse
    \/ RephraseHandled
    \/ RephraseReturn

SpecRephrase == Init /\ [][NextRephrase]_vars

\* _handle_web_search awaits rephrase_query and then split_query: the two
\* decisions of one request never overlap.
NextPlanner ==
    \/ splitter.pc = "idle" /\ NextRephrase
    \/ rephraser.pc = "idle" /\ NextSplit

SpecPlanner == Init /\ [][NextPlanner]_vars

(***************************************************************************)
(* APIKeyManager (src/config/api_key_manager.py).  A key is a string; ""   *)
(* is a blank entry of the configuration.  providers_keys[S] = <<>> stands *)
(* for S not in providers_keys, index_counters[S] = None for S not in      *)
(* index_counters.  "serper" is one of the special services and may also   *)
(* be the name of a provider; "unknown" is configured nowhere.            *)
(***************************************************************************)
MaxKeys == 2
MaxCalls == 6

ProviderKeyNames == <<"a", "b", "c", "d">>

ServiceKeyNames == <<"s", "t", "u", "v">>

\* The key lists a configuration can hold: up to MaxKeys keys, with or
\* without a blank entry in front.
RawLists(names) ==
    UNION { {SubSeq(names, 1, n), <<"">> \o SubSeq(names, 1, n)} : n \in 0 .. MaxKeys }

\* [key for key in api_keys if key.strip()]
NonBlank(api_keys) ==
    LET Kept(key) == key # "" IN SelectSeq(api_keys, Kept)

\* __init__ lines 33-52 and _load_service_keys lines 54-85.
APIKeyManagerInit ==
    /\ keymgr.pc = "new"
    /\ \E openai \in RawLists(ProviderKeyNames) :
       \E serper \in RawLists(ProviderKeyNames) :
       \E serper_api_keys \in RawLists(ServiceKeyNames) :
         LET providers == [S \in Services |->
                             IF S = "openai" THEN NonBlank(openai)
                             ELSE IF S = "serper" THEN NonBlank(serper)
                             ELSE <<>>]
             services == [S \in Services |->
                             IF S = "serper" THEN NonBlank(serper_api_keys) ELSE <<>>]
         IN keymgr' = [keymgr EXCEPT
               !.pc = "ready",
               !.providers_keys = providers,
               !.service_keys = services,
               !.index_counters =
                  [S \in Services |->
                      IF providers[S] # <<>> \/ services[S] # <<>> THEN 0 ELSE None]]
    /\ UNCHANGED <<core, search, splitter, rephraser, fetcher, llm, finder, handler>>

\* Lines 99-104: the keys of a service.
KeysOf(service_name) ==
    IF keymgr.providers_keys[service_name] # <<>>
    THEN keymgr.providers_keys[service_name]
    ELSE keymgr.service_keys[service_name]

HasKeysAlways(keys) == TRUE

\* Line 106: if not keys: return None
HasKeys(keys) == keys # <<>>

AdvanceNoWrap(index, n) == index + 1

\* Line 116.
Advance(index, n) == (index + 1) % n

\* get_next_api_key, lines 87-123.  The body between taking and releasing
\* the service's lock has no await, so a call is one step; a lookup of a
\* missing counter or an index past the list raises.
GetNextApiKey(service_name) ==
    /\ keymgr.pc = "ready"
    /\ Len(keymgr.calls) < MaxCalls
    /\ LET keys == KeysOf(service_name)
           index == keymgr.index_counters[service_name]
           raises == HasKeys(keys) /\ (index = None \/ index >= Len(keys))
           counters ==
              IF ~HasKeys(keys) \/ raises THEN keymgr.index_counters
              ELSE [keymgr.index_counters EXCEPT
                       ![service_name] = Advance(index, Len(keys))]
           call == [service |-> service_name,
                    key |-> IF ~HasKeys(keys) \/ raises THEN "None" ELSE keys[index + 1],
                    raised |-> raises,
                    before |-> keymgr.index_counters,
                    after |-> counters]
       IN keymgr' = [keymgr EXCEPT
             !.index_counters = counters,
             !.calls = Append(@, call)]
    /\ UNCHANGED <<core, search, splitter, rephraser, fetcher, llm, finder, handler>>

NextKeys == APIKeyManagerInit \/ \E S \in Services : GetNextApiKey(S)

SpecKeys == Init /\ [][NextKeys]_vars

(***************************************************************************)
(* fetch_single_url_content (src/search/url_handler.py).  A text is        *)
(* modelled by its length in characters; fetched is the length of what     *)
(* the remote side delivered, ret the length of the returned string.       *)
(***************************************************************************)
ContentCap == 20000
JinaPrefix == 17        \* len("__JINA_SUCCESS__\n")
PdfPrefix == 24         \* len("PDF Content (fallback):\n")
HtmlPrefix == 44        \* len("Extracted Content (BeautifulSoup fallback):\n")
ErrorPrefix == 30       \* len("Error fetching content from : ")

Urls == {"youtube.com", "youtu.be", "reddit.com", "redd.it", "example.com"}

FetchedLengths ==
    {0, 1, 100, ContentCap - HtmlPrefix, ContentCap - PdfPrefix, ContentCap - JinaPrefix,
     ContentCap - 1, ContentCap, ContentCap + 1, 2 * ContentCap}

ErrorLengths == {1, 100}

\* text[:20000]
Slice(n) == IF n < ContentCap THEN n ELSE ContentCap

\* Lines 120-127: a video or social-discussion URL.
FetchSpecialUrl ==
    /\ fetcher.pc = "idle"
    /\ \E url \in Urls \ {"example.com"} :
       \E n \in FetchedLengths :
         fetcher' = [IdleFetch EXCEPT
            !.pc = "done", !.url = url,
            !.branch = IF url \in {"youtube.com", "youtu.be"} THEN "video" ELSE "social",
            !.fetched = n, !.ret = Slice(n)]
    /\ UNCHANGED <<core, search, splitter, rephraser, keymgr, llm, finder, handler>>

\* Lines 129-137: any other URL goes to the readability proxy first.
FetchJina ==
    /\ fetcher.pc = "idle"
    /\ \E outcome \in {"ok", "HTTPError", "Exception"} :
       \E n \in FetchedLengths :
         fetcher' =
            IF outcome = "ok"
            THEN [IdleFetch EXCEPT
                    !.pc = "done", !.url = "example.com", !.jina = outcome,
                    !.branch = "jina", !.fetched = n,
                    !.ret = JinaPrefix + Slice(n)]
            ELSE [IdleFetch EXCEPT
                    !.pc = "direct", !.url = "example.com", !.jina = outcome]
    /\ UNCHANGED <<core, search, splitter, rephraser, keymgr, llm, finder, handler>>

\* Lines 144-164: the direct fetch answered; parse_pdf_content and
\* parse_html_content slice their text (lines 69, 96).
FetchDirect ==
    /\ fetcher.pc = "direct"
    /\ \E content_type \in {"application/pdf", "text/html", "text/plain"} :
       \E n \in FetchedLengths :
         fetcher' = [fetcher EXCEPT
            !.pc = "done", !.branch = content_type, !.fetched = n,
            !.ret = IF content_type = "application/pdf" THEN PdfPrefix + Slice(n)
                    ELSE IF content_type = "text/html" THEN HtmlPrefix + Slice(n)
                    ELSE Slice(n)]
    /\ UNCHANGED <<core, search, splitter, rephraser, keymgr, llm, finder, handler>>

\* Lines 165-167: the direct fetch raised; the message of the exception
\* goes into the returned text.
FetchDirectError ==
    /\ fetcher.pc = "direct"
    /\ \E n \in ErrorLengths :
         fetcher' = [fetcher EXCEPT
            !.pc = "done", !.branch = "error", !.fetched = n,
            !.ret = ErrorPrefix + Len(fetcher.url) + n]
    /\ UNCHANGED <<core, search, splitter, rephraser, keymgr, llm, finder, handler>>

FetchReturn ==
    /\ fetcher.pc = "done"
    /\ fetcher' = IdleFetch
    /\ UNCHANGED <<core, search, splitter, rephraser, keymgr, llm, finder, handler>>

NextFetch ==
    FetchSpecialUrl \/ FetchJina \/ FetchDirect \/ FetchDirectError \/ FetchReturn

SpecFetch == Init /\ [][NextFetch]_vars

(***************************************************************************)
(* LLMService.stream_completion (src/llm/llm_service.py lines 157-230),    *)
(* called with the key that _process_message took from the rotation        *)
(* (bot_client.py lines 307-314).  The provider has the keys ProviderKeys.  *)
(***************************************************************************)
llm_max_retries == 5
MaxChunks == 2

ProviderKeys == <<"k1", "k2">>

\* The key that follows key in the provider's rotation.
RotationNext(key) ==
    LET i == CHOOSE j \in 1 .. Len(ProviderKeys) : ProviderKeys[j] = key
    IN ProviderKeys[(i % Len(ProviderKeys)) + 1]

\* Lines 202-230: the except clause leaves current_api_key as it is.
RetryKey(current_api_key) == current_api_key

\* bot_client.py lines 307-314 and llm_service.py lines 175-177.
LLMStart ==
    /\ llm.pc = "idle"
    /\ \E api_key \in {ProviderKeys[i] : i \in 1 .. Len(ProviderKeys)} :
         llm' = [IdleLLM EXCEPT !.pc = "attempt", !.current_api_key = api_key]
    /\ UNCHANGED <<core, search, splitter, rephraser, keymgr, fetcher, finder, handler>>

\* Lines 179-190: the next attempt calls acompletion with current_api_key.
LLMAttempt ==
    /\ llm.pc = "attempt"
    /\ llm' = [llm EXCEPT !.pc = "streaming", !.sent = 0,
                          !.attempts = Append(@, llm.current_api_key)]
    /\ UNCHANGED <<core, search, splitter, rephraser, keymgr, fetcher, finder, handler>>

\* Lines 192-193: a chunk of the attempt's stream is yielded.
LLMYield ==
    /\ llm.pc = "streaming"
    /\ llm.sent < MaxChunks
    /\ llm' = [llm EXCEPT
          !.sent = @ + 1,
          !.yielded = Append(@, [attempt |-> Len(llm.attempts), chunk |-> llm.sent + 1])]
    /\ UNCHANGED <<core, search, splitter, rephraser, keymgr, fetcher, finder, handler>>

\* Lines 202-230: acompletion or the stream raises; the last attempt
\* re-raises, the others sleep and go round the loop.
LLMFail ==
    /\ llm.pc = "streaming"
    /\ llm' = [llm EXCEPT
          !.retry_count = @ + 1,
          !.current_api_key = RetryKey(@),
          !.pc = IF llm.retry_count + 1 >= llm_max_retries THEN "done" ELSE "attempt",
          !.raised = llm.retry_count + 1 >= llm_max_retries]
    /\ UNCHANGED <<core, search, splitter, rephraser, keymgr, fetcher, finder, handler>>

\* Lines 195-200: the stream is exhausted.
LLMEnd ==
    /\ llm.pc = "streaming"
    /\ llm' = [llm EXCEPT !.pc = "done"]
    /\ UNCHANGED <<core, search, splitter, rephraser, keymgr, fetcher, finder, handler>>

LLMReturn ==
    /\ llm.pc = "done"
    /\ llm' = IdleLLM
    /\ UNCHANGED <<core, search, splitter, rephraser, keymgr, fetcher, finder, handler>>

NextLLM == LLMStart \/ LLMAttempt \/ LLMYield \/ LLMFail \/ LLMEnd \/ LLMReturn

SpecLLM == Init /\ [][NextLLM]_vars

(***************************************************************************)
(* One predecessor lookup (build_conversation_context lines 384-394 with   *)
(* find_next_message) on any message: in the channel there are message 1,  *)
(* the message a thread was started from, and message 2, the previous      *)
(* message of the same author.                                             *)
(***************************************************************************)
ThreadStarter == 1

PreviousOfAuthor == 2

FindChannels ==
    {TextChannel}
    \cup { Channel(type, parent, ThreadStarter) :
             type \in {"public_thread", "private_thread"},
             parent \in {"none", "text", "forum"} }

FindInputs ==
    { [Message("user", <<1>>, <<>>, <<>>, ref) EXCEPT
          !.channel = ch, !.cached = cached] :
        ref \in {None, NoTarget, ThreadStarter, PreviousOfAuthor},
        ch \in FindChannels, cached \in BOOLEAN }

FindCall ==
    /\ finder.pc = "idle"
    /\ \E m \in FindInputs :
         finder' = [IdleFind EXCEPT !.pc = "fetching", !.curr_msg = m]
    /\ UNCHANGED <<core, search, splitter, rephraser, keymgr, fetcher, llm, handler>>

\* Lines 384-394: the caller stores the result, or sets fetch_next_failed
\* when find_next_message raises.
FindFetch ==
    /\ finder.pc = "fetching"
    /\ \E outcome \in FetchOutcomes(finder.curr_msg) :
         LET f == find_next_message(finder.curr_msg, outcome) IN
         finder' = [finder EXCEPT
            !.pc = "done",
            !.outcome = outcome,
            !.next_msg = IF f.raised THEN @ ELSE f.msg,
            !.fetch_next_failed = f.raised]
    /\ UNCHANGED <<core, search, splitter, rephraser, keymgr, fetcher, llm, handler>>

FindReturn ==
    /\ finder.pc = "done"
    /\ finder' = IdleFind
    /\ UNCHANGED <<core, search, splitter, rephraser, keymgr, fetcher, llm, handler>>

NextFind == FindCall \/ FindFetch \/ FindReturn

SpecFind == Init /\ [][NextFind]_vars

(***************************************************************************)
(* handle_search_queries and _format_search_results                        *)
(* (src/search/search_handler.py) with fetch_urls_content                  *)
(* (src/search/url_handler.py lines 170-203).  A URL is a small integer; a *)
(* SearchResult carries its URL and, as title and snippet, the query and   *)
(* the rank it was returned for.  The returned text is a sequence of       *)
(* lines [kind, n, v]: n is the number of the result block the line        *)
(* belongs to (0 outside the blocks), v what the line shows.               *)
(***************************************************************************)
HandleQueries == { <<>>, <<1>>, <<1, 2>> }

\* The URLs of the results search can return for one query.
ResultUrls == { <<>>, <<1>>, <<2>>, <<1, 2>>, <<2, 1>>, <<2, 3>>, <<3, 3>> }

\* The second value search returns: the errors of the backends that failed
\* before one returned results (search_service.py lines 294-318).
BackendErrors == { <<>>, <<1>>, <<1, 2>> }

SearchResult(url, query, rank) == [url |-> url, title |-> <<query, rank>>]

\* A merge that stores every result under its URL.
RECURSIVE MergeOverwrites(_, _)
MergeOverwrites(aggregated_results, results) ==
    IF results = <<>> THEN aggregated_results
    ELSE LET res == Head(results)
             at == {k \in 1 .. Len(aggregated_results) :
                        aggregated_results[k].url = res.url}
         IN MergeOverwrites(
                IF at = {} THEN Append(aggregated_results, res)
                ELSE [k \in 1 .. Len(aggregated_results) |->
                         IF k \in at THEN res ELSE aggregated_results[k]],
                Tail(results))

\* Lines 74-76: a dict keeps its keys in insertion order, and a URL that is
\* already a key keeps its result.
RECURSIVE Merge(_, _)
Merge(aggregated_results, results) ==
    IF results = <<>> THEN aggregated_results
    ELSE LET res == Head(results) IN
         Merge(IF \E k \in 1 .. Len(aggregated_results) :
                      aggregated_results[k].url = res.url
               THEN aggregated_results
               ELSE Append(aggregated_results, res),
               Tail(results))

Line(kind, n, v) == [kind |-> kind, n |-> n, v |-> v]

\* Line 83.
NoResultsText == << Line("no_results", 0, <<>>) >>

\* What fetch_single_url_content returned for a URL: the text of that URL
\* with the __JINA_SUCCESS__ marker, or without it, or the text of an error
\* (url_handler.py lines 119-167).
ContentKinds == {"jina", "direct", "error"}

Content(url, kind) == [url |-> url, kind |-> kind]

\* Lines 132-148: the block of result idx, formatted with content.
Block(idx, res, content) ==
    << Line("result", idx, <<idx>>) >>
    \o (IF content.kind = "jina"
        THEN << Line("snippet", idx, res.title) >>
        ELSE << Line("url", idx, <<res.url>>), Line("title", idx, res.title),
                Line("snippet", idx, res.title), Line("fetched", idx, <<>>) >>)
    \o << Line("content", idx, <<content.url>>), Line("blank", idx, <<>>) >>

\* zip(results, contents) of line 130.
ZipLen(results, contents) ==
    IF Len(results) < Len(contents) THEN Len(results) ELSE Len(contents)

\* Lines 117-150.
format_search_results(results, contents, errors) ==
    (IF errors # <<>>
     THEN << Line("errors_header", 0, <<>>) >>
          \o [i \in 1 .. Len(errors) |->
                 Line("error", 0, <<errors[i].query>> \o errors[i].error)]
          \o << Line("blank", 0, <<>>) >>
     ELSE <<>>)
    \o << Line("results_header", 0, <<>>) >>
    \o Concat([idx \in 1 .. ZipLen(results, contents) |->
                  Block(idx, results[idx], contents[idx])])

\* A gather that hands the results over in the order of completion.
GatheredAsCompleted(tasks, completed) ==
    [i \in 1 .. Len(completed) |-> tasks[completed[i]].content]

\* asyncio.gather (url_handler.py line 200): the results in the order of the
\* awaitables, whatever the order of completion.
Gathered(tasks, completed) ==
    [i \in 1 .. Len(tasks) |-> tasks[i].content]

\* url_handler.py lines 194-197: one coroutine per URL of the list.
FetchTasks(urls) ==
    [i \in 1 .. Len(urls) |->
        [url |-> urls[i], state |-> "pending", content |-> Content(None, "direct")]]

\* Lines 79-90, reached without suspending when the loop of line 52 ends:
\* nothing found, or fetch_urls_content is called with the merged URLs.
AfterSearches(h) ==
    IF h.aggregated_results = <<>>
    THEN [h EXCEPT !.pc = "done", !.ret = NoResultsText]
    ELSE [h EXCEPT !.pc = "fetching",
                   !.tasks = FetchTasks([i \in 1 .. Len(h.aggregated_results) |->
                                            h.aggregated_results[i].url])]

\* fetch_urls_content called on the URLs of a message
\* (message_processor.py, _handle_urls_in_message).
UrlLists == { <<1>>, <<2, 1>>, <<2, 1, 2>> }

FetchUrlsCall ==
    /\ handler.pc = "idle"
    /\ \E urls \in UrlLists :
         handler' = [IdleHandle EXCEPT !.pc = "gathering", !.tasks = FetchTasks(urls)]
    /\ UNCHANGED <<core, search, splitter, rephraser, keymgr, fetcher, llm, finder>>

\* url_handler.py lines 200-203.
FetchUrlsReturn ==
    /\ handler.pc = "gathering"
    /\ \A i \in 1 .. Len(handler.tasks) : handler.tasks[i].state = "done"
    /\ handler' = [handler EXCEPT
          !.pc = "done",
          !.contents = Gathered(handler.tasks, handler.completed)]
    /\ UNCHANGED <<core, search, splitter, rephraser, keymgr, fetcher, llm, finder>>

HandleCall ==
    /\ handler.pc = "idle"
    /\ \E queries \in HandleQueries :
         handler' = IF queries = <<>>
                    THEN AfterSearches([IdleHandle EXCEPT !.queries = queries])
                    ELSE [IdleHandle EXCEPT !.pc = "searching", !.queries = queries]
    /\ UNCHANGED <<core, search, splitter, rephraser, keymgr, fetcher, llm, finder>>

\* Lines 52-76: search returns for the next query.
HandleSearched ==
    /\ handler.pc = "searching"
    /\ \E urls \in ResultUrls : \E error \in BackendErrors :
         LET query == handler.queries[Len(handler.returned) + 1]
             results == [j \in 1 .. Len(urls) |-> SearchResult(urls[j], query, j)]
             h == [handler EXCEPT
                     !.returned = Append(@, [results |-> results, error |-> error]),
                     !.errors = IF error # <<>>
                                THEN Append(@, [query |-> query, error |-> error])
                                ELSE @,
                     !.aggregated_results = Merge(@, results)]
         IN handler' = IF Len(h.returned) < Len(h.queries) THEN h ELSE AfterSearches(h)
    /\ UNCHANGED <<core, search, splitter, rephraser, keymgr, fetcher, llm, finder>>

\* One of the concurrent fetches returns its text.
FetchTaskDone(i) ==
    /\ handler.pc \in {"fetching", "gathering"}
    /\ i \in 1 .. Len(handler.tasks)
    /\ handler.tasks[i].state = "pending"
    /\ \E kind \in ContentKinds :
         handler' = [handler EXCEPT
            !.tasks[i].state = "done",
            !.tasks[i].content = Content(handler.tasks[i].url, kind),
            !.completed = Append(@, i)]
    /\ UNCHANGED <<core, search, splitter, rephraser, keymgr, fetcher, llm, finder>>

\* The last fetch has returned: gather returns and the text is formatted
\* (search_handler.py lines 88-98).
HandleFormatted ==
    /\ handler.pc = "fetching"
    /\ \A i \in 1 .. Len(handler.tasks) : handler.tasks[i].state = "done"
    /\ LET contents == Gathered(handler.tasks, handler.completed) IN
       handler' = [handler EXCEPT
          !.pc = "done",
          !.contents = contents,
          !.ret = format_search_results(handler.aggregated_results, contents,
                                        handler.errors)]
    /\ UNCHANGED <<core, search, splitter, rephraser, keymgr, fetcher, llm, finder>>

HandleReturn ==
    /\ handler.pc = "done"
    /\ handler' = IdleHandle
    /\ UNCHANGED <<core, search, splitter, rephraser, keymgr, fetcher, llm, finder>>

NextHandle ==
    \/ HandleCall
    \/ HandleSearched
    \/ \E i \in 1 .. Len(handler.tasks) : FetchTaskDone(i)
    \/ HandleFormatted
    \/ HandleReturn
    \/ FetchUrlsCall
    \/ FetchUrlsReturn

SpecHandle == Init /\ [][NextHandle]_vars

(***************************************************************************)
(* Properties of the chain builder.                                        *)
(***************************************************************************)
WalkOver(r) == pc[r] \notin {"idle", "walk", "lockwait", "extract", "extract_w"}

ConvTurns(r) ==
    Cardinality({i \in 1 .. Len(req[r].messages) : req[r].messages[i].role # "system"})

\* The reply chain that starts at message m has at least k messages.
RECURSIVE ChainAtLeast(_, _)
ChainAtLeast(m, k) ==
    k = 0 \/ (m # None /\ ChainAtLeast(msgs[m].reference, k - 1))

\* Every visit of the walk put a turn into the prompt and found the platform's
\* predecessor of the message.
AllVisitsAppended(r) ==
    \A i \in 1 .. Len(req[r].log) :
        /\ req[r].log[i].appended
        /\ req[r].log[i].next_msg = msgs[req[r].log[i].msg].reference

C6_VisitsBounded ==
    \A r \in Reqs : Len(req[r].log) <= req[r].cfg.max_messages

\* C9: a message body longer than max_text resolves to its first max_text
\* characters, and the walk that resolves it warns "Max <max_text> characters
\* per message".
C9_TruncationWarning ==
    \A r \in Reqs : \A i \in 1 .. Len(req[r].log) :
        LET e == req[r].log[i]
            body == msgs[e.msg].content
        IN (e.extracted /\ msgs[e.msg].author = "user"
            /\ Len(body) > req[r].cfg.max_text)
           => /\ nodes[e.node].text = Take(body, req[r].cfg.max_text)
              /\ Warning("max_text", req[r].cfg.max_text) \in req[r].user_warnings

\* C10: an augmentation rewrites the text of the prompt turn built from the
\* triggering message and nothing else: the turns keep their number and order,
\* every other turn its content, and the rewritten turn its image parts.
ImageParts(c) ==
    IF c.isStr THEN <<>>
    ELSE LET RECURSIVE Go(_)
             Go(ps) == IF ps = <<>> THEN <<>>
                       ELSE (IF Head(ps).type = "image_url" THEN <<Head(ps)>> ELSE <<>>)
                            \o Go(Tail(ps))
         IN Go(c.parts)

AugmentationStep(r) ==
    pc[r] \in {"built", "searching"} /\ pc'[r] = "llm"
    /\ nodes'[msg_nodes[req[r].new_msg]].text # nodes[msg_nodes[req[r].new_msg]].text

C10_OnlyTriggeringTurn ==
    [][\A r \in Reqs :
         AugmentationStep(r) =>
           LET old == req[r].messages
               new == req'[r].messages
           IN /\ Len(new) = Len(old)
              /\ \E k \in 1 .. Len(old) :
                    /\ old[k].src = req[r].new_msg
                    /\ new[k].content # old[k].content
                    /\ ImageParts(new[k].content) = ImageParts(old[k].content)
                    /\ new[k].role = old[k].role
                    /\ \A i \in 1 .. Len(old) : i # k => new[i] = old[i]]_vars

(***************************************************************************)
(* Properties of concurrent requests.                                      *)
(***************************************************************************)
Visits == {<<r, i>> : r \in Reqs, i \in 1 .. MaxVisits}

\* The visits recorded so far.
Visited == {v \in Visits : v[2] <= Len(req[v[1]].log)}

Entry(v) == req[v[1]].log[v[2]]

\* Two distinct visits of one node that is still the cached node of its message.
SameCachedNode(v, w) ==
    /\ v # w
    /\ Entry(v).node = Entry(w).node
    /\ msg_nodes[Entry(v).msg] = Entry(v).node

CreatedByHandler(n) ==
    \E r \in Reqs : \E i \in 1 .. Len(strm[r].response_nodes) :
        strm[r].response_nodes[i] = n

\* One of the two visits read the augmented text of a triggering message.
AugmentedBetween(v, w) ==
    \E r \in Reqs :
        /\ Entry(v).msg = req[r].new_msg
        /\ AugmentedText(msgs[req[r].new_msg].content) \in {Entry(v).read, Entry(w).read}

ReplyMsgs(r) ==
    {req[r].progress_message} \cup {strm[r].response_msgs[i] : i \in 1 .. Len(strm[r].response_msgs)}

\* C3: a chain walk that reaches a message of a reply in flight blocks until
\* the reply is final, and never reads for that message a text other than
\* the reply's final concatenated text.
C3_InFlightReplyBlocks ==
    \A v \in Visited : \A r \in Reqs :
        (pc[r] # "idle" /\ Entry(v).msg \in ReplyMsgs(r))
        => /\ strm[r].completed
           /\ Entry(v).read = Concat(strm[r].response_contents)

\* C4: when the request handler has finished, after an exception or not, no
\* lock taken for an emitted response message is still held.
C4_LocksReleasedOnError ==
    \A r \in Reqs :
        pc[r] = "done"
        => \A i \in 1 .. Len(strm[r].response_nodes) :
               nodes[strm[r].response_nodes[i]].lock.holder # r

\* C5: after the normal completion of a response, in both modes, the node of
\* every emitted message holds the concatenation of all segments and its
\* lock is not held by the handler; a chain walk that waited on such a node
\* read exactly that text.
C5_FinalTextAndRelease ==
    \A r \in Reqs :
        strm[r].completed
        => /\ \A i \in 1 .. Len(strm[r].response_nodes) :
                 /\ nodes[strm[r].response_nodes[i]].text = Concat(strm[r].response_contents)
                 /\ nodes[strm[r].response_nodes[i]].lock.holder # r
           /\ \A v \in Visited :
                 (Entry(v).waited /\ \E i \in 1 .. Len(strm[r].response_nodes) :
                                        strm[r].response_nodes[i] = Entry(v).node)
                 => Entry(v).read = Concat(strm[r].response_contents)

C5_Witness ==
    \E r \in Reqs : \E v \in Visited :
        /\ strm[r].completed
        /\ Len(strm[r].response_nodes) = 2
        /\ Entry(v).waited
        /\ Entry(v).node = strm[r].response_nodes[1]
        /\ Entry(v).read = Concat(strm[r].response_contents)
        /\ Len(Entry(v).read) = MaxStream

(***************************************************************************)
(* Properties of the streamer.                                             *)
(***************************************************************************)
\* C7: in rich mode a stream whose content has K times the segment limit
\* characters ends with exactly K segments, each within the limit, however
\* the content is divided into tokens.
C7_SegmentBoundaryExactness ==
    \A r \in Reqs : \A K \in 1 .. 2 :
        (/\ strm[r].completed
         /\ ~req[r].cfg.use_plain_responses
         /\ strm[r].searched_for_text = <<>>
         /\ strm[r].produced = K * cont_msg_content_limit)
        => /\ Len(strm[r].response_contents) = K
           /\ \A i \in 1 .. Len(strm[r].response_contents) :
                 Len(strm[r].response_contents[i]) <= cont_msg_content_limit

\* C8: in rich mode the last segment is shown with the complete colour if and
\* only if the stream's last finish reason is 'stop' or 'end_turn'; otherwise
\* no render of the last segment ever uses the complete colour.
C8_CompleteColorIffCleanStop ==
    \A r \in Reqs :
        (/\ strm[r].completed
         /\ ~req[r].cfg.use_plain_responses
         /\ strm[r].response_msgs # <<>>
         /\ strm[r].edit_task # "pending")
        => LET m == msgs[Last(strm[r].response_msgs)] IN
           /\ (IsGoodFinish(strm[r].finish_reason) /\ strm[r].edit_task = "done")
              => m.color = "complete"
           /\ ~IsGoodFinish(strm[r].finish_reason) => ~m.ever_complete

(***************************************************************************)
(* The internet_used flag.                                                 *)
(***************************************************************************)
\* C11: after a request has completed, the node of its triggering message
\* and the node of every message of its reply have internet_used = TRUE if
\* its augmentation fired and FALSE if not, in plain and in rich mode.
C11_UsedInternetEverywhere ==
    \A r \in Reqs :
        strm[r].completed
        => /\ \A i \in 1 .. Len(strm[r].response_nodes) :
                 nodes[strm[r].response_nodes[i]].internet_used = req[r].augmented
           /\ msg_nodes[req[r].new_msg] # None
              => nodes[msg_nodes[req[r].new_msg]].internet_used = req[r].augmented

HasStringArray(content) ==
    /\ content # NullContent
    /\ ArrayMatch(content) # <<>>
    /\ ValidJson(ArrayMatch(content))
    /\ \A i \in 1 .. Len(Elements(ArrayMatch(content))) :
          Elements(ArrayMatch(content))[i] \in {"q1", "q2"}

\* C13: split_query returns [query] and raises nothing whenever the model
\* response holds no parseable JSON array of strings and whenever every
\* transport attempt failed.
C13_SplitFailSafe ==
    (splitter.pc = "done" /\ ~HasStringArray(splitter.content))
    => /\ ~splitter.raised
       /\ splitter.ret = <<splitter.query>>

(***************************************************************************)
(* Properties of rephrase_query.                                           *)
(***************************************************************************)
HasQuestionBlock(content) ==
    content # NullContent /\ QuestionMatched(content)

\* C14: rephrase_query returns 'not_needed' whenever the model response
\* lacks the <question> block and whenever every transport attempt failed;
\* and whenever it returns 'not_needed' no search is made for the request.
C14_RephraseFailsClosed ==
    /\ (rephraser.pc \in {"done", "handled"} /\ ~HasQuestionBlock(rephraser.content))
          => (~rephraser.raised /\ rephraser.ret = not_needed)
    /\ (rephraser.pc = "handled" /\ rephraser.ret = not_needed)
          => ~rephraser.searched

(***************************************************************************)
(* Properties of the APIKeyManager.                                        *)
(***************************************************************************)
\* The calls made for service S, in order.
CallsFor(S) ==
    LET ForS(call) == call.service = S IN SelectSeq(keymgr.calls, ForS)

C17_FetchCapped ==
    fetcher.pc = "done" => (~fetcher.raised /\ fetcher.ret <= ContentCap)

(***************************************************************************)
(* Properties of the top-level handler.                                    *)
(***************************************************************************)
\* C18: every exception raised while a request is processed is caught by
\* on_message, which edits the placeholder with the error text and lets no
\* exception leave on_message.
C18_TopLevelCatch ==
    \A r \in Reqs :
        (pc[r] = "done" /\ req[r].catch # "none")
        => /\ req[r].catch = "edited"
           /\ msgs[req[r].progress_message].content = <<ErrorCh>>

(***************************************************************************)
(* Properties of the writes to cached nodes.                               *)
(***************************************************************************)
\* The step assigns a new value to the text, the images or the predecessor
\* of node n.
Assigns(n) ==
    \/ nodes'[n].text # nodes[n].text
    \/ nodes'[n].images # nodes[n].images
    \/ nodes'[n].next_msg # nodes[n].next_msg

\* Request r takes a step.
Steps(r) == pc'[r] # pc[r] \/ req'[r] # req[r] \/ strm'[r] # strm[r]

\* C19: every assignment to a cached node's text, images or predecessor is
\* made by a request that holds the node's lock.
C19_WritesUnderLock ==
    [][\A n \in 1 .. Len(nodes) :
         Assigns(n) => \E r \in Reqs : Steps(r) /\ nodes[n].lock.holder = r]_vars

Streamed(s) == [i \in 1 .. s.produced |-> StreamBase + i]

\* C21: after a stream ended normally, the segments put together in order
\* are exactly the content of every chunk of the stream in stream order,
\* whichever chunk carries the last content.
C21_NoTokenLost ==
    \A r \in Reqs :
        strm[r].completed => Concat(strm[r].response_contents) = Streamed(strm[r])

\* C22: in rich mode the message of a segment that was closed because the
\* next token would overflow it shows, after the last edit applied to it,
\* the segment's full text with the complete color and no streaming
\* indicator.
C22_ClosedSegmentRenderedComplete ==
    \A r \in Reqs :
        ~req[r].cfg.use_plain_responses =>
        \A i \in 1 .. Len(strm[r].response_msgs) - 1 :
            LET shown == msgs[strm[r].response_msgs[i]] IN
            /\ shown.color = "complete"
            /\ shown.embed = (IF i = 1 THEN strm[r].searched_for_text ELSE <<>>)
                             \o strm[r].response_contents[i]

\* What the message of the open segment shows without the indicator.
OpenSegmentText(s) ==
    (IF Len(s.response_msgs) = 1 THEN s.searched_for_text ELSE <<>>)
    \o Last(s.response_contents)

\* C23: in rich mode, once the stream has signalled completion, the last
\* edit issued for the last message carries the open segment's final text
\* without the streaming indicator, whatever time has passed since the edit
\* before it; when that edit has reached the platform the message shows
\* exactly that text.
C23_FinalEditFlushed ==
    \A r \in Reqs :
        (~req[r].cfg.use_plain_responses /\ strm[r].finish_reason # "none"
            /\ strm[r].response_msgs # <<>>)
        => /\ strm[r].edit_task # "none"
           /\ strm[r].edit_task = "pending" =>
                 /\ strm[r].edit.msg = Last(strm[r].response_msgs)
                 /\ strm[r].edit.final
                 /\ strm[r].edit.embed = OpenSegmentText(strm[r])
           /\ strm[r].edit_task = "done" =>
                 msgs[Last(strm[r].response_msgs)].embed = OpenSegmentText(strm[r])

\* The stream completed less than EDIT_DELAY_SECONDS after the edit before,
\* which had not finished, and the final edit of the second segment was
\* issued with its text.
C23_Witness ==
    /\ strm[1].finish_reason # "none"
    /\ strm[1].edit_task = "pending"
    /\ strm[1].edit.final
    /\ ~strm[1].edit.prev_done
    /\ strm[1].edit.since < EDIT_DELAY_SECONDS
    /\ Len(strm[1].response_contents) = 2
    /\ Last(strm[1].response_contents) # <<>>
    /\ strm[1].edit.embed = Last(strm[1].response_contents)

\* What the message of segment i shows while the segment is streamed.
Rendered(s, i) ==
    (IF i = 1 THEN s.searched_for_text ELSE <<>>)
    \o s.response_contents[i] \o STREAMING_INDICATOR

\* C24: while no token is longer than the limit of the segment it goes to,
\* every segment stays within its limit at all times: in plain mode within
\* the length limit of a message, in rich mode such that the rendered
\* description (search prefix on the first segment, segment text, streaming
\* indicator) stays within the limit of an embed, in every edit issued and
\* in every message shown.
C24_SegmentsWithinLimit ==
    \A r \in Reqs :
        ~strm[r].oversized =>
           IF req[r].cfg.use_plain_responses
           THEN \A i \in 1 .. Len(strm[r].response_contents) :
                   Len(strm[r].response_contents[i]) <= PlainLimit
           ELSE /\ \A i \in 1 .. Len(strm[r].response_contents) :
                      Len(Rendered(strm[r], i)) <= discord_embed_limit
                /\ Len(strm[r].edit.embed) <= discord_embed_limit
                /\ \A i \in 1 .. Len(strm[r].response_msgs) :
                      Len(msgs[strm[r].response_msgs[i]].embed) <= discord_embed_limit

\* In rich mode the first segment, with the search prefix, was filled to
\* its limit and the next one was opened.
C24_Witness ==
    /\ ~strm[1].oversized
    /\ ~req[1].cfg.use_plain_responses
    /\ Len(strm[1].response_contents) = 2
    /\ Last(strm[1].response_contents) # <<>>
    /\ strm[1].searched_for_text # <<>>
    /\ Len(Rendered(strm[1], 1)) = discord_embed_limit

\* The step issues an edit from the loop of request r.
Issued(r) == strm'[r].edit # strm[r].edit /\ strm'[r].edit.msg # None

\* C25: in rich mode an edit that is triggered neither by the completion of
\* the stream nor by a segment boundary is issued only when the edit before
\* it has finished and at least EDIT_DELAY_SECONDS have passed since the
\* last edit or message creation of the request, and it carries everything
\* that arrived for the open segment since.
C25_EditsThrottled ==
    [][\A r \in Reqs :
         (Issued(r) /\ ~strm'[r].edit.final)
         => /\ strm'[r].edit.prev_done
            /\ strm'[r].edit.since >= EDIT_DELAY_SECONDS
            /\ strm'[r].edit.embed =
                  Rendered(strm'[r], Len(strm'[r].response_contents))]_vars

\* A throttled edit was issued a full interval after the edit or creation
\* before it, and carries the two or more characters of the open segment.
C25_Witness ==
    /\ strm[1].edit_task = "pending"
    /\ ~strm[1].edit.final
    /\ strm[1].edit.since >= EDIT_DELAY_SECONDS
    /\ Len(strm[1].response_contents) = 1
    /\ Len(strm[1].response_contents[1]) >= 2
    /\ strm[1].edit.embed = Rendered(strm[1], 1)

(***************************************************************************)
(* Properties of stream_completion.                                        *)
(***************************************************************************)
\* C26: the chunks that the consumer of stream_completion receives are the
\* chunks of a single transport attempt: chunks of an attempt that failed
\* are never followed by chunks of a retry.
C26_SingleAttemptChunks ==
    \A i \in 1 .. Len(llm.yielded) : \A j \in 1 .. Len(llm.yielded) :
        llm.yielded[i].attempt = llm.yielded[j].attempt

\* C27: the completion call is attempted at most 5 times for a request, and
\* every retry uses the key that follows, in the provider's rotation, the
\* key of the attempt that failed.
C27_RetriesRotateKeys ==
    /\ Len(llm.attempts) <= llm_max_retries
    /\ \A i \in 2 .. Len(llm.attempts) :
          llm.attempts[i] = RotationNext(llm.attempts[i - 1])

\* A finished decision: it made at most 5 attempts, it returned a value, and
\* every attempt after the first used the key taken from the rotator after
\* the failure before it (the key of the failed attempt when the rotator has
\* none).
PlannerDecisionOK(state, used, taken, raised) ==
    state = "done" =>
        /\ Len(used) <= max_retries
        /\ ~raised
        /\ \A k \in 2 .. Len(used) :
              used[k] = IF taken[k - 1] # "" THEN taken[k - 1] ELSE used[k - 1]

\* C28: rephrase_query and split_query each make at most 5 attempts and then
\* end with a value, and every attempt after a failed one uses the key taken
\* from the key rotator after that failure.
C28_PlannerBoundedRetry ==
    /\ PlannerDecisionOK(splitter.pc, splitter.used, splitter.taken,
                         splitter.raised)
    /\ PlannerDecisionOK(rephraser.pc, rephraser.used, rephraser.taken,
                         rephraser.raised)

\* The part of C28 that the retry loops do satisfy: the bound on the
\* attempts and the rotation of the key.
C28_AttemptsAndRotation ==
    /\ PlannerDecisionOK(splitter.pc, splitter.used, splitter.taken, FALSE)
    /\ PlannerDecisionOK(rephraser.pc, rephraser.used, rephraser.taken, FALSE)

\* The predecessor rule: the referenced message of a reply with a target id;
\* else the thread's starter message for a message without reference in a
\* public thread whose parent is a text channel; else none.
Predecessor(m) ==
    IF m.reference # None /\ m.reference # NoTarget THEN m.reference
    ELSE IF /\ m.reference = None
            /\ m.channel.type = "public_thread"
            /\ m.channel.parent = "text"
    THEN m.channel.starter
    ELSE None

\* C29: a finished lookup whose fetch succeeded gives the predecessor of the
\* rule (reply reference first, then the starter of a public thread of a
\* text channel, else none), a lookup never gives any other message, and a
\* message without reference outside a thread gets no predecessor, so never
\* the previous message of its author.
C29_PredecessorRule ==
    finder.pc = "done" =>
        LET m == finder.curr_msg IN
        /\ finder.outcome = "ok" => finder.next_msg = Predecessor(m)
        /\ finder.next_msg \in {Predecessor(m), None}
        /\ (m.reference = None /\ m.channel.type = "text")
              => finder.next_msg = None /\ finder.next_msg # PreviousOfAuthor

\* A reply sent inside a public thread of a text channel: both rules apply,
\* and the lookup has returned the referenced message, not the starter.
C29_Witness ==
    /\ finder.pc = "done"
    /\ finder.curr_msg.reference = PreviousOfAuthor
    /\ finder.curr_msg.channel = Channel("public_thread", "text", ThreadStarter)
    /\ finder.next_msg = PreviousOfAuthor

\* Entry e of a walk's log is an extraction whose fetch of the predecessor
\* failed: the message has a predecessor to fetch and the node got none.
FetchFailed(e) ==
    /\ e.extracted
    /\ FetchOutcomes(msgs[e.msg]) # {"ok"}
    /\ e.next_msg = None

\* The walk of request r ended at entry i with the chain-capped warning.
WalkEndedCapped(r, i) ==
    /\ i = Len(req[r].log)
    /\ req[r].curr_msg = None
    /\ pc[r] # "raised"
    /\ \E w \in req[r].user_warnings : w.w = "only_last"

C30_WalkEndsAtFailure ==
    \A r \in Reqs : \A i \in 1 .. Len(req[r].log) :
        FetchFailed(req[r].log[i]) =>
            /\ i = Len(req[r].log) /\ req[r].curr_msg = None /\ pc[r] # "raised"
            /\ nodes[req[r].log[i].node].fetch_next_failed => WalkEndedCapped(r, i)

\* A flag that is set is never cleared.
C30_FlagStaysSet ==
    [][\A n \in 1 .. Len(nodes) :
          nodes[n].fetch_next_failed => nodes'[n].fetch_next_failed]_vars

\* The visits of request r that appended a turn, in visiting order.
TurnVisits(r) ==
    LET Appended(e) == e.appended IN SelectSeq(req[r].log, Appended)

SendsSystemTurn(cfg) == cfg.system_prompt /\ ~cfg.grok

\* C31: the turns returned by build_conversation_context are the turns of
\* the visited messages in the reverse of visiting order (newest last), and a
\* system turn is present, only at index 0, exactly when a system prompt is
\* configured and the model is not a grok model.
C31_ChronologicalPrompt ==
    \A r \in Reqs : pc[r] = "built" =>
        LET ms == req[r].messages
            sys == SendsSystemTurn(req[r].cfg)
            body == IF sys /\ ms # <<>> THEN Tail(ms) ELSE ms
            visits == TurnVisits(r)
        IN /\ sys => (ms # <<>> /\ ms[1].role = "system")
           /\ Len(body) = Len(visits)
           /\ \A i \in 1 .. Len(body) :
                 /\ body[i].role # "system"
                 /\ body[i].src = visits[Len(visits) + 1 - i].msg

\* A prompt with a system turn and the turns of two visited messages, the
\* triggering message's turn last.
C31_Witness ==
    /\ pc[1] = "built"
    /\ Len(req[1].messages) = 3
    /\ req[1].messages[1].role = "system"
    /\ req[1].messages[3].src = req[1].new_msg
    /\ req[1].messages[2].src # req[1].new_msg

\* Request r has posted its placeholder.
PlaceholderPosted(r) == pc[r] # "idle"

\* The placeholder of request r no longer reads 'Processing your request...'.
PlaceholderEdited(r) ==
    /\ pc[r] # "idle"
    /\ msgs[req[r].progress_message].content # <<PlaceholderCh>>

\* C32: a request that has posted its placeholder eventually edits it into
\* response content or into an error message, whatever stream the transport
\* delivers (unless the edit with the error message itself fails).
C32_PlaceholderEventuallyEdited ==
    PlaceholderPosted(1) ~> (PlaceholderEdited(1) \/ req[1].catch = "escaped")

\* What does hold: once a segment of the answer exists, the placeholder is
\* eventually edited.
C32_EditedOnceContentExists ==
    (pc[1] # "idle" /\ strm[1].response_contents # <<>>)
        ~> (PlaceholderEdited(1) \/ req[1].catch = "escaped")

\* C33: a node leaves the cache only in a step of a pruning coroutine that
\* holds the node's lock: the lock of the removed node is held by no walker
\* and no streamer when the node is removed.
C33_RemovedUnderLock ==
    [][\A id \in MsgIds :
          (msg_nodes[id] # None /\ msg_nodes'[id] = None)
              => nodes[msg_nodes[id]].lock.holder = None]_vars

\* Request r is in _manage_message_cache.
Pruning(r) == pc[r] \in {"prune", "prunewait"}

\* C34: when the pruning of a request completes, the cache holds at most
\* MAX_MESSAGE_NODES nodes, and pruning removes only ids that were among the
\* smallest when it started.
C34_PruningBoundsCache ==
    [][\A r \in Reqs :
          (Pruning(r) /\ pc'[r] = "done")
              => Cardinality(Cached') <= MAX_MESSAGE_NODES]_vars

\* The ids dropped by a pruning run that starts now.
Victims ==
    IF Cardinality(Cached) > MAX_MESSAGE_NODES
    THEN Take(Sorted(Cached), Cardinality(Cached) - MAX_MESSAGE_NODES)
    ELSE <<>>

\* What does hold: a pruning run that never has to wait for a lock removes
\* exactly the smallest ids, as many as the cache is over the limit, and
\* leaves MAX_MESSAGE_NODES nodes.
C34_UncontendedPruning ==
    [][\A r \in Reqs :
          (pc[r] = "prune" /\ pc'[r] = "done")
              => /\ Cached \ Cached' = {Victims[i] : i \in 1 .. Len(Victims)}
                 /\ Cached' \subseteq Cached
                 /\ Cardinality(Cached') <= MAX_MESSAGE_NODES]_vars

\* Request r has built its chain and has not yet delivered its response.
Delivering(r) ==
    pc[r] \in {"built", "searching", "llm", "stream", "stream_end",
               "plain", "plain_send", "plain_end"}

\* C35: from the end of chain building until the response is delivered, the
\* node of the request's triggering message is in the cache: no pruning of a
\* concurrently processed request has removed it.
C35_TriggerNodeStaysCached ==
    \A r \in Reqs : Delivering(r) => msg_nodes[req[r].new_msg] # None

\* The coroutines that take node locks: the requests and their image tasks.
Coroutines == Reqs \cup {ImageTaskOf(r) : r \in Reqs}

Holds(c) == {n \in 1 .. Len(nodes) : nodes[n].lock.holder = c}

Waits(c) ==
    {n \in 1 .. Len(nodes) :
        \E i \in 1 .. Len(nodes[n].lock.waiters) : nodes[n].lock.waiters[i] = c}

\* C36: a coroutine that waits for a node lock holds no node lock, so the
\* node locks never form a circular wait; a chain walk holds at most one
\* node lock.
C36_NoHoldAndWait ==
    /\ \A c \in Coroutines : Waits(c) # {} => Holds(c) = {}
    /\ \A r \in Reqs :
          pc[r] \in {"walk", "lockwait", "extract", "extract_w"}
              => Cardinality(Holds(r)) <= 1

\* A chain walk waits for the lock of a node of a reply whose request holds
\* the locks of two reply nodes.
C36_Witness ==
    \E r \in Reqs : \E w \in Reqs :
        /\ pc[w] = "lockwait"
        /\ nodes[req[w].curr_node].lock.holder = r
        /\ Cardinality(Holds(r)) >= 2

\* The image task of a request waits for the lock of the triggering node.
C36_ImageTaskWaits ==
    \E r \in Reqs : Waits(ImageTaskOf(r)) # {}

(***************************************************************************)
(* Properties of handle_search_queries and fetch_urls_content.             *)
(***************************************************************************)
\* Every result search returned, in query order and then in result order.
AllReturned ==
    Concat([k \in 1 .. Len(handler.returned) |-> handler.returned[k].results])

\* The positions of AllReturned whose URL occurs at no earlier position.
FirstOccurrences ==
    Sorted({k \in 1 .. Len(AllReturned) :
               \A e \in 1 .. k - 1 : AllReturned[e].url # AllReturned[k].url})

\* C37: the merged results are, for each URL, the first result returned with
\* that URL, in the order of those first occurrences, and the fetcher is
\* started once for each of them, in the same order.
C37_FirstOccurrenceWins ==
    handler.pc \in {"fetching", "done"} /\ handler.queries # <<>>
    => /\ handler.aggregated_results =
             [i \in 1 .. Len(FirstOccurrences) |-> AllReturned[FirstOccurrences[i]]]
       /\ Len(handler.tasks) = Len(FirstOccurrences)
       /\ \A i \in 1 .. Len(handler.tasks) :
             handler.tasks[i].url = AllReturned[FirstOccurrences[i]].url

\* Two queries returned the same URL, and the merged URLs are not in
\* ascending order.
C37_Witness ==
    /\ handler.pc = "done"
    /\ Len(handler.queries) = 2
    /\ \E a \in 1 .. Len(handler.returned[1].results) :
       \E b \in 1 .. Len(handler.returned[2].results) :
          handler.returned[1].results[a].url = handler.returned[2].results[b].url
    /\ Len(handler.aggregated_results) >= 2
    /\ handler.aggregated_results[1].url > handler.aggregated_results[2].url

\* The lines of kind k of the returned text.
LinesOf(k) == {p \in 1 .. Len(handler.ret) : handler.ret[p].kind = k}

\* C38: fetch_urls_content returns one text per URL, the i-th being the text
\* of the i-th URL, and result block i shows the text of result i's URL.
C38_ContentsAligned ==
    handler.pc = "done" /\ handler.tasks # <<>>
    => /\ Len(handler.contents) = Len(handler.tasks)
       /\ \A i \in 1 .. Len(handler.tasks) :
             handler.contents[i].url = handler.tasks[i].url
       /\ handler.queries # <<>>
          => /\ Cardinality(LinesOf("content")) = Len(handler.aggregated_results)
             /\ \A p \in LinesOf("content") :
                   handler.ret[p].v = <<handler.aggregated_results[handler.ret[p].n].url>>
             /\ \A p \in LinesOf("snippet") :
                   handler.ret[p].v = handler.aggregated_results[handler.ret[p].n].title

\* The fetches completed in another order than they were started, and one
\* of them failed.
C38_Witness ==
    /\ handler.pc = "done"
    /\ handler.queries # <<>>
    /\ Len(handler.completed) >= 2
    /\ handler.completed[1] > handler.completed[2]
    /\ \E i \in 1 .. Len(handler.contents) : handler.contents[i].kind = "error"

RECURSIVE ErrorCount(_)
ErrorCount(returned) ==
    IF returned = <<>> THEN 0
    ELSE Len(Head(returned).error) + ErrorCount(Tail(returned))

\* C39: the returned text has one error line for every backend error of
\* every query, and the error lines precede the result blocks, whatever the
\* searches returned.
C39_ErrorLinesFirst ==
    handler.pc = "done" /\ handler.queries # <<>>
    => /\ Cardinality(LinesOf("error")) = ErrorCount(handler.returned)
       /\ \A p \in LinesOf("error") : \A b \in LinesOf("result") : p < b

\* What does hold: when a result was found, the text has one error line for
\* every query whose search reported errors, that line shows all the errors
\* of the query, and the error lines precede the result blocks.
C39_ErrorLinePerFailedQuery ==
    handler.pc = "done" /\ handler.aggregated_results # <<>>
    => /\ \A k \in 1 .. Len(handler.returned) :
             handler.returned[k].error # <<>>
             => \E p \in LinesOf("error") :
                   handler.ret[p].v = <<handler.queries[k]>> \o handler.returned[k].error
       /\ Cardinality(LinesOf("error")) =
             Cardinality({k \in 1 .. Len(handler.returned) :
                             handler.returned[k].error # <<>>})
       /\ \A p \in LinesOf("error") : \A b \in LinesOf("result") : p < b

\* C40: whenever split_query returns, the list it returns is not empty.
C40_SplitReturnsQueries ==
    (splitter.pc = "done" /\ ~splitter.raised) => splitter.ret # <<>>

\* C40, at the caller: a web search that has fired has recorded at least
\* one query on the node of the triggering message.
C40_SearchRecordsQuery ==
    \A r \in Reqs :
        (pc[r] = "searching" /\ msg_nodes[req[r].new_msg] # None)
            => nodes[msg_nodes[req[r].new_msg]].serper_queries # <<>>

\* What does hold: when the model's response holds no array, or an array
\* that is not a list of strings, and when every attempt failed, split_query
\* returns the original query alone.
C40_FallbackIsOriginalQuery ==
    (splitter.pc = "done" /\ ~splitter.raised /\ ~HasStringArray(splitter.content))
        => splitter.ret = <<splitter.query>>

====
